---- MODULE Spec2Model ----
(***************************************************************************)
(* A model of parts of noodles:                                            *)
(*   - the CRAM rANS Nx16 decoder (noodles-cram, codecs/rans_nx16/decode)  *)
(*   - the multithreaded BGZF writer (noodles-bgzf, multithreaded_writer)  *)
(*   - the SAM header parser (noodles-sam, header/parser)                  *)
(* One rANS lane (advance step and renormalisation) has a specification of *)
(* its own over sample 32-bit states.                                      *)
(* Every part has its own variables and its own specification; a           *)
(* specification leaves the variables of the other parts untouched.        *)
(***************************************************************************)
EXTENDS Integers, Sequences, FiniteSets, TLC

VARIABLES
    \* rANS Nx16 decode: one call of decode(reader, len)
    input,      \* the bytes behind the reader
    hint,       \* the caller's len argument
    build,      \* "debug" (overflow checks on) or "release" (wrapping)
    pos,        \* the reader's cursor: number of bytes consumed
    stack,      \* call stack of decode / rans_decode_stripe frames
    result,     \* the value decode returned, once it has returned
    \* rans_get_symbol_from_freq: one lookup
    cumulative_freqs,   \* the table cum[0..256]
    freq,       \* the slot looked up
    sym_out,    \* the local sym of the scan
    lpc,        \* where the lookup is: "idle", "scan", "done"
    \* MultithreadedWriter
    mpc,        \* where the thread that owns the writer is
    mop,        \* the method it is in: write, flush, finish, drop
    mbuf,       \* self.buf: the number of bytes buffered
    submitted,  \* the blocks handed to send(), in order
    write_q,    \* the channel write_tx -> write_rx
    deflate_q,  \* the channel deflate_tx -> deflate_rx
    chans,      \* the one-result channel of every block
    dthreads,   \* the deflater threads
    wthread,    \* the writer thread
    inner,      \* what the inner writer has been given
    handles,    \* the fields of the struct: handles and sending ends
    fails,      \* the operations that fail in this run
    rets,       \* what the calls of finish have returned, in order
    \* SAM header Parser
    ctx,        \* self.ctx: the version the records are parsed under
    header,     \* self.header: None, or the VN of the header map
    reference_sequences,    \* self.reference_sequences: names in map order
    read_groups,    \* self.read_groups: ids in map order
    programs,   \* self.programs: ids in map order
    comments,   \* self.comments
    calls,      \* the calls of parse_partial so far and what they returned
    ppc,        \* "open" until finish has consumed the parser
    \* one rANS lane: advance step, then renormalisation
    lane_r,     \* the lane's state, a u32 as [hi, lo]
    lane_prev,  \* the last step: the state and cursor it started from,
                \* and the number of steps so far
    lane_cf,    \* the located symbol: [c, f, bits]
    lane_in,    \* the bytes behind the reader
    lane_pos,   \* the reader's cursor
    lane_pc,    \* "advance", "renorm", "done" or "failed"
    lane_build, \* "debug" or "release"
    \* CSI reference sequence Builder
    bin_builders,   \* self.bin_builders: bin id -> [loffset, chunks]
    linear_index,   \* self.linear_index: <<>> is None, <<p>> is Some(p)
    start_position, \* self.start_position
    end_position,   \* self.end_position
    mapped_record_count,    \* self.mapped_record_count
    unmapped_record_count,  \* self.unmapped_record_count
    added,      \* the records handed to add_record so far
    built       \* <<>> until build has returned, then <<its result>>

decVars == <<input, hint, build, pos, stack, result>>
lookupVars == <<cumulative_freqs, freq, sym_out, lpc>>
mwVars == <<mpc, mop, mbuf, submitted, write_q, deflate_q, chans, dthreads,
            wthread, inner, handles, fails, rets>>
parserVars == <<ctx, header, reference_sequences, read_groups, programs,
                comments, calls, ppc>>
laneVars == <<lane_r, lane_prev, lane_cf, lane_in, lane_pos, lane_pc,
              lane_build>>
csiVars == <<bin_builders, linear_index, start_position, end_position,
             mapped_record_count, unmapped_record_count, added, built>>
vars == <<decVars, lookupVars, mwVars, parserVars, laneVars, csiVars>>

-----------------------------------------------------------------------------
(* Bounds of the model *)

\* longest CAT payload / RLE / PACK body of a generated block
MaxPayload == 2
\* largest stripe count of a generated stripe block
MaxStripes == 2
\* largest caller-supplied len
MaxHint == 2
\* largest single frequency of a generated cumulative table
MaxFreq == 2
\* number of blocks the caller of the writer submits
MaxBlocks == 3
\* largest worker count of the writer
MaxWorkers == 2
\* MAX_BUF_SIZE scaled down: the bytes self.buf holds when a block is full
MaxBuf == 2
\* most calls of finish in one run
MaxFinish == 2

-----------------------------------------------------------------------------
(* Integer helpers *)

Pow2(k) == 2 ^ k

W16 == Pow2(16)

Min(a, b) == IF a < b THEN a ELSE b

Max(a, b) == IF a < b THEN b ELSE a

RECURSIVE SumSeq(_)
SumSeq(s) == IF s = <<>> THEN 0 ELSE Head(s) + SumSeq(Tail(s))

RECURSIVE SortedSeq(_)
\* the elements of a finite set of integers in increasing order
SortedSeq(S) ==
    IF S = {} THEN <<>>
    ELSE LET m == CHOOSE x \in S : \A y \in S : x <= y
         IN <<m>> \o SortedSeq(S \ {m})

Prefixes(s) == { SubSeq(s, 1, k) : k \in 0..Len(s) }

-----------------------------------------------------------------------------
(* Flags: the header byte as a bitset *)

ORDER == 1
N32 == 4
STRIPE == 8
NO_SIZE == 16
CAT == 32
RLE == 64
PACK == 128

\* flags.contains(bit)
Contains(flags, bit) == (flags \div bit) % 2 = 1

-----------------------------------------------------------------------------
(* The reader: a cursor p over the byte sequence inp.  Every read returns  *)
(* [st, val, pos]; st = "eof" is io::ErrorKind::UnexpectedEof.             *)

read_u8(inp, p) ==
    IF p < Len(inp)
    THEN [st |-> "ok", val |-> inp[p + 1], pos |-> p + 1]
    ELSE [st |-> "eof", val |-> 0, pos |-> p]

read_exact(inp, p, k) ==
    IF p + k <= Len(inp)
    THEN [st |-> "ok", val |-> SubSeq(inp, p + 1, p + k), pos |-> p + k]
    ELSE [st |-> "eof", val |-> <<>>, pos |-> Len(inp)]

read_u16_le(inp, p) ==
    LET r == read_exact(inp, p, 2)
    IN IF r.st = "ok"
       THEN [st |-> "ok", val |-> r.val[1] + 256 * r.val[2], pos |-> r.pos]
       ELSE [st |-> "eof", val |-> 0, pos |-> r.pos]

\* a u32 is the record [hi, lo] of its two 16-bit halves
read_u32_le(inp, p) ==
    LET r == read_exact(inp, p, 4)
    IN IF r.st = "ok"
       THEN [st |-> "ok",
             val |-> [hi |-> r.val[3] + 256 * r.val[4],
                      lo |-> r.val[1] + 256 * r.val[2]],
             pos |-> r.pos]
       ELSE [st |-> "eof", val |-> [hi |-> 0, lo |-> 0], pos |-> r.pos]

RECURSIVE read_uint7_from(_, _, _)
read_uint7_from(inp, p, acc) ==
    LET b == read_u8(inp, p)
        \* n <<= 7; n |= b & 0x7f  (the shift drops the bits above 2^32)
        n == ((acc % Pow2(25)) * 128) + (b.val % 128)
    IN IF b.st # "ok" THEN [st |-> "eof", val |-> 0, pos |-> b.pos]
       ELSE IF b.val >= 128 THEN read_uint7_from(inp, b.pos, n)
       ELSE [st |-> "ok", val |-> n, pos |-> b.pos]

\* base-128 variable-length integer, high bit = continuation
read_uint7(inp, p) == read_uint7_from(inp, p, 0)

-----------------------------------------------------------------------------
(* read_alphabet: the loop state is [sym, last_sym, rle, alphabet, pos, st] *)
(* with st in {"loop", "done", "eof", "panic"}; the bitmap is the set of   *)
(* symbols whose entry is true.                                            *)

\* let mut sym = reader.read_u8()?; let mut last_sym = sym; let mut rle = 0;
read_alphabet_begin(inp, p) ==
    LET r == read_u8(inp, p)
    IN [sym |-> r.val, last_sym |-> r.val, rle |-> 0, alphabet |-> {},
        count |-> 0,
        pos |-> r.pos, st |-> IF r.st = "ok" THEN "loop" ELSE "eof"]

\* sym += 1 on a u8: overflow panics with overflow checks, wraps without
inc_sym(sym, bld) ==
    IF sym < 255 THEN [st |-> "ok", val |-> sym + 1]
    ELSE IF bld = "debug" THEN [st |-> "panic", val |-> sym]
    ELSE [st |-> "ok", val |-> 0]

\* a run branch that forgets rle -= 1
alphabet_run_branch_keep(a, bld) ==
    LET s == inc_sym(a.sym, bld)
    IN [a EXCEPT !.sym = s.val,
                 !.st = IF s.st = "ok" THEN "loop" ELSE "panic"]

\* if rle > 0 { rle -= 1; sym += 1; }
alphabet_run_branch(a, bld) ==
    LET s == inc_sym(a.sym, bld)
    IN [a EXCEPT !.rle = a.rle - 1, !.sym = s.val,
                 !.st = IF s.st = "ok" THEN "loop" ELSE "panic"]

\* else { sym = reader.read_u8()?; if last_sym < 255 && sym == last_sym + 1
\*        { rle = reader.read_u8()?; } }
alphabet_read_branch(inp, a) ==
    LET r1 == read_u8(inp, a.pos)
    IN IF r1.st # "ok" THEN [a EXCEPT !.st = "eof", !.pos = r1.pos]
       ELSE IF a.last_sym < 255 /\ r1.val = a.last_sym + 1
       THEN LET r2 == read_u8(inp, r1.pos)
            IN IF r2.st # "ok"
               THEN [a EXCEPT !.st = "eof", !.pos = r2.pos, !.sym = r1.val]
               ELSE [a EXCEPT !.sym = r1.val, !.rle = r2.val, !.pos = r2.pos]
       ELSE [a EXCEPT !.sym = r1.val, !.pos = r1.pos]

\* one iteration of the loop; count is the number of symbols marked so far
read_alphabet_iter(inp, a, bld) ==
    LET marked == [a EXCEPT !.alphabet = a.alphabet \cup {a.sym},
                            !.count = a.count + 1]
        b == IF marked.rle > 0 THEN alphabet_run_branch(marked, bld)
             ELSE alphabet_read_branch(inp, marked)
    IN IF b.st # "loop" THEN b
       ELSE [b EXCEPT !.last_sym = b.sym,
                      !.st = IF b.sym = 0 THEN "done" ELSE "loop"]

RECURSIVE read_alphabet_loop(_, _, _)
read_alphabet_loop(inp, a, bld) ==
    IF a.st # "loop" THEN a
    ELSE read_alphabet_loop(inp, read_alphabet_iter(inp, a, bld), bld)

read_alphabet(inp, p, bld) ==
    read_alphabet_loop(inp, read_alphabet_begin(inp, p), bld)

-----------------------------------------------------------------------------
(* rANS primitives *)

\* r & ((1 << bits) - 1)
rans_get_cumulative_freq_nx16(r, bits) == r.lo % Pow2(bits)

\* the scan stops on an equal cumulative value
rans_scan_continues_strict(cf, f, sym) == sym < 255 /\ f > cf[sym + 1]

\* while sym < 255 && freq >= cumulative_freqs[sym + 1] { sym += 1; }
\* the loop goes on at sym
rans_scan_continues(cf, f, sym) == sym < 255 /\ f >= cf[sym + 1]

\* the loop ends at the first sym at which it does not go on
rans_get_symbol_from_freq(cf, f) ==
    CHOOSE sym \in 0..255 :
        /\ ~rans_scan_continues(cf, f, sym)
        /\ \A k \in 0..(sym - 1) : rans_scan_continues(cf, f, k)

\* r >> bits, for a u32 r and 2 <= bits <= 16
u32_shr(r, bits) == r.hi * Pow2(16 - bits) + (r.lo \div Pow2(bits))

\* f * q in u32 arithmetic, for f <= 2^16 and q < 2^20: [ov, val]
u32_mul(f, q) ==
    LET p0 == f * (q % 1024)
        p1 == f * (q \div 1024)
        low == p0 + (p1 % 64) * 1024
        high == (p1 \div 64) + (low \div W16)
    IN [ov |-> high >= W16, val |-> [hi |-> high % W16, lo |-> low % W16]]

\* r + k in u32 arithmetic, for 0 <= k <= 2^16: [ov, val]
u32_add(r, k) ==
    LET low == r.lo + k
        high == r.hi + (low \div W16)
    IN [ov |-> high >= W16, val |-> [hi |-> high % W16, lo |-> low % W16]]

\* r - k in u32 arithmetic, for 0 <= k <= 2^16: [ov, val]
u32_sub(r, k) ==
    LET low == r.lo - k
        borrow == IF low < 0 THEN (IF low < 0 - W16 THEN 2 ELSE 1) ELSE 0
        high == r.hi - borrow
    IN [ov |-> high < 0,
        val |-> [hi |-> (high + W16) % W16,
                 lo |-> (low + 2 * W16) % W16]]

\* c is subtracted from the product before the slot is added
rans_advance_step_nx16_sub_first(r, c, f, bits, bld) ==
    LET prod == u32_mul(f, u32_shr(r, bits))
        diff == u32_sub(prod.val, c)
        sum == u32_add(diff.val, r.lo % Pow2(bits))
    IN IF (prod.ov \/ sum.ov \/ diff.ov) /\ bld = "debug"
       THEN [st |-> "panic", val |-> r]
       ELSE [st |-> "ok", val |-> sum.val]

\* f * (r >> bits) + (r & ((1 << bits) - 1)) - c in u32 arithmetic;
\* an overflow panics with overflow checks on and wraps without
rans_advance_step_nx16(r, c, f, bits, bld) ==
    LET prod == u32_mul(f, u32_shr(r, bits))
        sum == u32_add(prod.val, r.lo % Pow2(bits))
        diff == u32_sub(sum.val, c)
    IN IF (prod.ov \/ sum.ov \/ diff.ov) /\ bld = "debug"
       THEN [st |-> "panic", val |-> r]
       ELSE [st |-> "ok", val |-> diff.val]

\* the top-up starts below 1 << 14 only
rans_renorm_nx16_late(inp, p, r) ==
    IF r.hi = 0 /\ r.lo < Pow2(14)
    THEN LET w == read_u16_le(inp, p)
         IN IF w.st # "ok" THEN [st |-> "eof", val |-> r, pos |-> w.pos]
            ELSE [st |-> "ok",
                  val |-> u32_add([hi |-> r.lo, lo |-> 0], w.val).val,
                  pos |-> w.pos]
    ELSE [st |-> "ok", val |-> r, pos |-> p]

\* if r < (1 << 15) { r = (r << 16) + reader.read_u16::<LittleEndian>()? }
rans_renorm_nx16(inp, p, r) ==
    IF r.hi = 0 /\ r.lo < Pow2(15)
    THEN LET w == read_u16_le(inp, p)
         IN IF w.st # "ok" THEN [st |-> "eof", val |-> r, pos |-> w.pos]
            ELSE [st |-> "ok",
                  val |-> u32_add([hi |-> r.lo, lo |-> 0], w.val).val,
                  pos |-> w.pos]
    ELSE [st |-> "ok", val |-> r, pos |-> p]

-----------------------------------------------------------------------------
(* order_0 / order_1: entropy decoders.  A result is [st, val, pos] with   *)
(* st in {"ok", "eof", "invalid", "panic"}.                                *)

\* normalisation total of a frequency table is 1 << TF_SHIFT
TF_SHIFT == 12

\* F applied to the value v: names an intermediate result
With(v, F(_)) == F(v)

Err(kind, p) == [st |-> kind, val |-> <<>>, pos |-> p]

RECURSIVE read_freq_values(_, _, _, _)
\* one uint7 frequency per present symbol, in increasing symbol order
read_freq_values(inp, p, syms, freqs) ==
    IF syms = <<>> THEN [st |-> "ok", val |-> freqs, pos |-> p]
    ELSE LET v == read_uint7(inp, p)
         IN IF v.st # "ok" THEN Err("eof", v.pos)
            ELSE read_freq_values(inp, v.pos, Tail(syms),
                                  [freqs EXCEPT ![Head(syms)] = v.val])

RECURSIVE norm_shift(_)
norm_shift(total) ==
    IF total >= Pow2(TF_SHIFT) THEN 0 ELSE 1 + norm_shift(2 * total)

RECURSIVE SumOver(_, _)
\* the sum of f[s] over the symbols s of the finite set S
SumOver(f, S) ==
    IF S = {} THEN 0
    ELSE LET x == CHOOSE y \in S : TRUE IN f[x] + SumOver(f, S \ {x})

\* the 257-entry cumulative table: cum[0] = 0, cum[i+1] = cum[i] + freqs[i]
\* (only the symbols of `alphabet` have a non-zero frequency)
cumulative(freqs, alphabet) ==
    [i \in 0..256 |-> SumOver(freqs, { s \in alphabet : s < i })]

\* scale the frequencies by a power of two up to the total 1 << TF_SHIFT
normalize_frequencies(freqs, alphabet, total, p) ==
    IF total = 0 \/ total > Pow2(TF_SHIFT) THEN Err("invalid", p)
    ELSE With(Pow2(norm_shift(total)), LAMBDA sh :
           IF total * sh # Pow2(TF_SHIFT) THEN Err("invalid", p)
           ELSE With([s \in 0..255 |-> freqs[s] * sh], LAMBDA fr :
                  [st |-> "ok",
                   val |-> [freqs |-> fr, cum |-> cumulative(fr, alphabet)],
                   pos |-> p]))

\* frequency values of the symbols of `alphabet`, normalised
read_frequencies(inp, p, alphabet) ==
    With(read_freq_values(inp, p, SortedSeq(alphabet), [s \in 0..255 |-> 0]),
         LAMBDA r :
           IF r.st # "ok" THEN r
           ELSE normalize_frequencies(r.val, alphabet,
                                      SumOver(r.val, alphabet), r.pos))

RECURSIVE read_states(_, _, _, _)
\* n consecutive 32-bit little-endian lane states
read_states(inp, p, n, acc) ==
    IF Len(acc) = n THEN [st |-> "ok", val |-> acc, pos |-> p]
    ELSE LET w == read_u32_le(inp, p)
         IN IF w.st # "ok" THEN Err("eof", w.pos)
            ELSE read_states(inp, w.pos, n, Append(acc, w.val))

\* one symbol off lane j (1-based) of `states` under the table tab:
\* [st, sym, states, pos]
rans_decode_symbol(inp, p, tab, states, j, bld) ==
    With(rans_get_symbol_from_freq(
             tab.cum, rans_get_cumulative_freq_nx16(states[j], TF_SHIFT)),
         LAMBDA s :
           With(rans_advance_step_nx16(states[j], tab.cum[s], tab.freqs[s],
                                       TF_SHIFT, bld),
                LAMBDA adv :
                  IF adv.st # "ok"
                  THEN [st |-> "panic", sym |-> s, states |-> states,
                        pos |-> p]
                  ELSE With(rans_renorm_nx16(inp, p, adv.val), LAMBDA rn :
                         [st |-> rn.st, sym |-> s,
                          states |-> [states EXCEPT ![j] = rn.val],
                          pos |-> rn.pos])))

RECURSIVE order_0_symbols(_, _, _, _, _, _, _, _)
\* the i-th output byte comes off lane i % n
order_0_symbols(inp, p, tab, states, n, len, out, bld) ==
    IF Len(out) >= len THEN [st |-> "ok", val |-> out, pos |-> p]
    ELSE With(rans_decode_symbol(inp, p, tab, states, (Len(out) % n) + 1,
                                 bld),
              LAMBDA d :
                IF d.st # "ok" THEN Err(d.st, d.pos)
                ELSE order_0_symbols(inp, d.pos, tab, d.states, n, len,
                                     Append(out, d.sym), bld))

\* order_0::decode after the alphabet has been read
order_0_body(inp, p, alphabet, len, n, bld) ==
    With(read_frequencies(inp, p, alphabet), LAMBDA tab :
      IF tab.st # "ok" THEN tab
      ELSE With(read_states(inp, tab.pos, n, <<>>), LAMBDA sts :
             IF sts.st # "ok" THEN sts
             ELSE order_0_symbols(inp, sts.pos, tab.val, sts.val, n, len,
                                  <<>>, bld)))

order_0_decode(inp, p, len, n, bld) ==
    With(read_alphabet(inp, p, bld), LAMBDA a :
      IF a.st # "done" THEN Err(a.st, a.pos)
      ELSE order_0_body(inp, a.pos, a.alphabet, len, n, bld))

RECURSIVE read_context_tables(_, _, _, _, _)
\* one alphabet + frequency block per context symbol, in increasing order
read_context_tables(inp, p, ctxs, tabs, bld) ==
    IF ctxs = <<>> THEN [st |-> "ok", val |-> tabs, pos |-> p]
    ELSE With(read_alphabet(inp, p, bld), LAMBDA a :
           IF a.st # "done" THEN Err(a.st, a.pos)
           ELSE With(read_frequencies(inp, a.pos, a.alphabet), LAMBDA t :
                  IF t.st # "ok" THEN t
                  ELSE read_context_tables(inp, t.pos, Tail(ctxs),
                                           tabs @@ (Head(ctxs) :> t.val),
                                           bld)))

RECURSIVE order_1_symbols(_, _, _, _, _, _, _, _, _)
\* as order 0, with the table of the symbol last decoded on the lane
order_1_symbols(inp, p, tabs, states, last_syms, n, len, out, bld) ==
    IF Len(out) >= len THEN [st |-> "ok", val |-> out, pos |-> p]
    ELSE With((Len(out) % n) + 1, LAMBDA j :
           IF last_syms[j] \notin DOMAIN tabs THEN Err("invalid", p)
           ELSE With(rans_decode_symbol(inp, p, tabs[last_syms[j]], states, j, bld),
                     LAMBDA d :
                       IF d.st # "ok" THEN Err(d.st, d.pos)
                       ELSE order_1_symbols(inp, d.pos, tabs, d.states,
                                            [last_syms EXCEPT ![j] = d.sym], n,
                                            len, Append(out, d.sym), bld)))

order_1_decode(inp, p, len, n, bld) ==
    With(read_alphabet(inp, p, bld), LAMBDA a :
      IF a.st # "done" THEN Err(a.st, a.pos)
      ELSE With(read_context_tables(inp, a.pos, SortedSeq(a.alphabet), <<>>,
                                    bld),
                LAMBDA tabs :
                  IF tabs.st # "ok" THEN tabs
                  ELSE With(read_states(inp, tabs.pos, n, <<>>), LAMBDA sts :
                         IF sts.st # "ok" THEN sts
                         ELSE order_1_symbols(inp, sts.pos, tabs.val,
                                              sts.val, [k \in 1..n |-> 0],
                                              n, len, <<>>, bld))))

-----------------------------------------------------------------------------
(* PACK and RLE: the meta blocks read before the core decode and the       *)
(* expansions run after it.                                                *)

PackMetaErr(kind, at) ==
    [st |-> kind, p |-> <<>>, n_sym |-> 0, len |-> 0, pos |-> at]

\* decode_pack_meta: n_sym (non-zero), the n_sym-entry table, the uint7 len
decode_pack_meta(inp, p0) ==
    With(read_u8(inp, p0), LAMBDA c :
      IF c.st # "ok" THEN PackMetaErr("eof", c.pos)
      ELSE IF c.val = 0 THEN PackMetaErr("invalid", c.pos)
      ELSE With(read_exact(inp, c.pos, c.val), LAMBDA tab :
             IF tab.st # "ok" THEN PackMetaErr("eof", tab.pos)
             ELSE With(read_uint7(inp, tab.pos), LAMBDA len :
                    IF len.st # "ok" THEN PackMetaErr("eof", len.pos)
                    ELSE [st |-> "ok", p |-> tab.val, n_sym |-> c.val,
                          len |-> len.val, pos |-> len.pos])))

\* m is taken as it is read
rle_symbol_count_plain(first) == first

\* let mut m = rle_meta_reader.read_u8()?; if m == 0 { m = 256; }
rle_symbol_count(first) == IF first = 0 THEN 256 ELSE first

RleMetaErr(kind, at) ==
    [st |-> kind, l |-> {}, meta |-> <<>>, mpos |-> 0, len |-> 0, pos |-> at]

\* the flag set L and the control cursor, from the (uncompressed) meta bytes
rle_meta_symbols(meta, len, at) ==
    With(read_u8(meta, 0), LAMBDA first :
      IF first.st # "ok" THEN RleMetaErr("eof", at)
      ELSE With(read_exact(meta, first.pos, rle_symbol_count(first.val)),
                LAMBDA syms :
                  IF syms.st # "ok" THEN RleMetaErr("eof", at)
                  ELSE [st |-> "ok",
                        l |-> { syms.val[k] : k \in 1..Len(syms.val) },
                        meta |-> meta, mpos |-> syms.pos, len |-> len,
                        pos |-> at]))

\* the meta bytes: verbatim when rle_meta_len is odd, else order-0 coded
rle_meta_bytes(inp, p, rle_meta_len, n, bld) ==
    IF rle_meta_len % 2 = 1
    THEN read_exact(inp, p, rle_meta_len \div 2)
    ELSE With(read_uint7(inp, p), LAMBDA comp_meta_len :
           IF comp_meta_len.st # "ok" THEN Err("eof", comp_meta_len.pos)
           ELSE With(read_exact(inp, comp_meta_len.pos, comp_meta_len.val),
                     LAMBDA buf :
                       IF buf.st # "ok" THEN Err("eof", buf.pos)
                       ELSE With(order_0_decode(buf.val, 0,
                                                rle_meta_len \div 2, n, bld),
                                 LAMBDA dst :
                                   [st |-> dst.st, val |-> dst.val,
                                    pos |-> buf.pos])))

\* decode_rle_meta: [st, l, meta, mpos, len, pos]
decode_rle_meta(inp, p0, n, bld) ==
    With(read_uint7(inp, p0), LAMBDA rle_meta_len :
      IF rle_meta_len.st # "ok" THEN RleMetaErr("eof", rle_meta_len.pos)
      ELSE With(read_uint7(inp, rle_meta_len.pos), LAMBDA len :
             IF len.st # "ok" THEN RleMetaErr("eof", len.pos)
             ELSE With(rle_meta_bytes(inp, len.pos, rle_meta_len.val, n, bld),
                       LAMBDA meta :
                         IF meta.st # "ok" THEN RleMetaErr(meta.st, meta.pos)
                         ELSE rle_meta_symbols(meta.val, len.val, meta.pos))))

RECURSIVE rle_expand(_, _, _, _, _, _, _)
\* walk the core-decoded bytes: a symbol of l takes the next run count c
\* from the control cursor and is emitted c + 1 times, any other symbol is
\* emitted once; the output must have exactly len bytes
rle_expand(src, l, meta, mp, len, out, runs) ==
    IF src = <<>>
    THEN [st |-> IF Len(out) = len THEN "ok" ELSE "invalid",
          val |-> out, runs |-> runs, mpos |-> mp]
    ELSE With(IF Head(src) \in l THEN read_uint7(meta, mp)
              ELSE [st |-> "ok", val |-> 0, pos |-> mp],
              LAMBDA c :
                IF c.st # "ok"
                THEN [st |-> "eof", val |-> <<>>, runs |-> runs, mpos |-> mp]
                ELSE IF Len(out) + c.val + 1 > len
                THEN [st |-> "invalid", val |-> <<>>, runs |-> runs,
                      mpos |-> mp]
                ELSE rle_expand(Tail(src), l, meta, c.pos, len,
                                out \o [i \in 1..(c.val + 1) |-> Head(src)],
                                Append(runs, c.val + 1)))

\* rle::decode(&data, &l, &mut rle_meta, len)
rle_decode(src, l, meta, mp, len) ==
    rle_expand(src, l, meta, mp, len, <<>>, <<>>)

\* bits per packed symbol
pack_bits(n_sym) ==
    IF n_sym <= 1 THEN 0
    ELSE IF n_sym <= 2 THEN 1
    ELSE IF n_sym <= 4 THEN 2
    ELSE 4

\* the code of output position i (0-based), lowest bits first
pack_code(src, bits, i) ==
    IF bits = 0 THEN 0
    ELSE (src[(i \div (8 \div bits)) + 1]
          \div Pow2(bits * (i % (8 \div bits)))) % Pow2(bits)

\* the number of packed bytes that hold len symbols
pack_need(bits, len) ==
    IF bits = 0 THEN 0 ELSE (len + (8 \div bits) - 1) \div (8 \div bits)

\* pack::decode(&data, &p, n_sym, len)
pack_decode(src, p, n_sym, len) ==
    IF n_sym > 16 \/ Len(src) # pack_need(pack_bits(n_sym), len)
       \/ \E i \in 0..(len - 1) : pack_code(src, pack_bits(n_sym), i) >= n_sym
    THEN [st |-> "invalid", val |-> <<>>]
    ELSE [st |-> "ok",
          val |-> [i \in 1..len |->
                     p[pack_code(src, pack_bits(n_sym), i - 1) + 1]]]

-----------------------------------------------------------------------------
(* decode and rans_decode_stripe as a machine: a configuration is          *)
(* [pos, stack, result]; the top frame of the stack is the running call.   *)
(* A `?` on an error leaves every frame at once, as does a panic.          *)

NoResult == [st |-> "none", site |-> "", out |-> <<>>]

Top(stk) == stk[Len(stk)]

SetTop(stk, f) == [stk EXCEPT ![Len(stk)] = f]

Pop(stk) == SubSeq(stk, 1, Len(stk) - 1)

Cont(p, stk) == [pos |-> p, stack |-> stk, result |-> NoResult]

Fail(p, kind, site) ==
    [pos |-> p, stack |-> <<>>,
     result |-> [st |-> kind, site |-> site, out |-> <<>>]]

\* Ok(value): hand the value to the caller's frame, or out of the machine
Return(p, stk, value) ==
    IF Len(stk) = 1
    THEN [pos |-> p, stack |-> <<>>,
          result |-> [st |-> "ok", site |-> "", out |-> value]]
    ELSE Cont(p, SetTop(Pop(stk), [Top(Pop(stk)) EXCEPT !.ret = value]))

\* the frame of a call decode(reader, len)
decode_frame(len) ==
    [fn |-> "decode", pc |-> "flags", len |-> len, flags |-> 0, n |-> 0,
     p |-> <<>>, n_sym |-> 0, pack_len |-> 0,
     l |-> {}, rle_meta |-> <<>>, rle_mpos |-> 0, rle_len |-> 0,
     al |-> read_alphabet_begin(<<>>, 0),
     core |-> <<>>, runs |-> <<>>, data |-> <<>>, ret |-> <<>>,
     entry |-> 0, body |-> 0]

\* the frame of a call rans_decode_stripe(reader, len, n)
stripe_frame(len, n) ==
    [fn |-> "stripe", pc |-> "x", len |-> len, n |-> n, x |-> 0,
     clens |-> <<>>, ulens |-> <<>>, t |-> <<>>, ulen |-> 0,
     starts |-> <<>>, ends |-> <<>>, ret |-> <<>>]

\* let flags = reader.read_u8().map(Flags::from)?;
decode_read_flags(inp, p, stk, bld) ==
    LET r == read_u8(inp, p)
    IN IF r.st # "ok" THEN Fail(r.pos, "eof", "flags")
       ELSE Cont(r.pos, SetTop(stk, [Top(stk) EXCEPT !.flags = r.val,
                                                     !.entry = p,
                                                     !.pc = "size"]))

\* the size field is read and the caller's len kept
decode_read_size_keep(inp, p, stk, bld) ==
    LET f == Top(stk)
        r == read_uint7(inp, p)
    IN IF Contains(f.flags, NO_SIZE)
       THEN Cont(p, SetTop(stk, [f EXCEPT !.pc = "select"]))
       ELSE IF r.st # "ok" THEN Fail(r.pos, "eof", "size")
       ELSE Cont(r.pos, SetTop(stk, [f EXCEPT !.pc = "select"]))

\* if !flags.contains(Flags::NO_SIZE) { len = read_uint7(reader)?; }
decode_read_size(inp, p, stk, bld) ==
    LET f == Top(stk)
        r == read_uint7(inp, p)
    IN IF Contains(f.flags, NO_SIZE)
       THEN Cont(p, SetTop(stk, [f EXCEPT !.pc = "select"]))
       ELSE IF r.st # "ok" THEN Fail(r.pos, "eof", "size")
       ELSE Cont(r.pos, SetTop(stk, [f EXCEPT !.len = r.val,
                                              !.pc = "select"]))

\* let n = if flags.contains(Flags::N32) { 32 } else { 4 };
lane_count(flags) == IF Contains(flags, N32) THEN 32 ELSE 4

\* if flags.contains(Flags::STRIPE) { return rans_decode_stripe(..); }
decode_select(inp, p, stk, bld) ==
    LET f == Top(stk)
        n == lane_count(f.flags)
    IN IF Contains(f.flags, STRIPE)
       THEN Cont(p, Append(SetTop(stk, [f EXCEPT !.n = n,
                                                 !.pc = "stripe_ret"]),
                           stripe_frame(f.len, n)))
       ELSE Cont(p, SetTop(stk, [f EXCEPT !.n = n, !.pc = "pack_meta"]))

\* the stripe decoder's result goes on through the stages of the outer block
decode_return_stripe_on(inp, p, stk, bld) ==
    Cont(p, SetTop(stk, [Top(stk) EXCEPT !.data = Top(stk).ret,
                                         !.pc = "pack_meta"]))

\* return rans_decode_stripe(reader, len, n);
decode_return_stripe(inp, p, stk, bld) == Return(p, stk, Top(stk).ret)

\* the length is saved after the pack meta has replaced it
decode_pack_meta_stage_late(inp, p, stk, bld) ==
    LET f == Top(stk)
    IN IF ~Contains(f.flags, PACK)
       THEN Cont(p, SetTop(stk, [f EXCEPT !.pack_len = f.len,
                                          !.pc = "rle_meta"]))
       ELSE With(decode_pack_meta(inp, p), LAMBDA m :
              IF m.st # "ok" THEN Fail(m.pos, m.st, "pack_meta")
              ELSE Cont(m.pos, SetTop(stk, [f EXCEPT !.pack_len = m.len,
                                                     !.p = m.p,
                                                     !.n_sym = m.n_sym,
                                                     !.len = m.len,
                                                     !.pc = "rle_meta"])))

\* let pack_len = len; if PACK { (p, n_sym, len) = decode_pack_meta()? }
decode_pack_meta_stage(inp, p, stk, bld) ==
    LET f == Top(stk)
    IN IF ~Contains(f.flags, PACK)
       THEN Cont(p, SetTop(stk, [f EXCEPT !.pack_len = f.len,
                                          !.pc = "rle_meta"]))
       ELSE With(decode_pack_meta(inp, p), LAMBDA m :
              IF m.st # "ok" THEN Fail(m.pos, m.st, "pack_meta")
              ELSE Cont(m.pos, SetTop(stk, [f EXCEPT !.pack_len = f.len,
                                                     !.p = m.p,
                                                     !.n_sym = m.n_sym,
                                                     !.len = m.len,
                                                     !.pc = "rle_meta"])))

\* let rle_len = len; if RLE { (l, rle_meta, len) = decode_rle_meta()? }
decode_rle_meta_stage(inp, p, stk, bld) ==
    LET f == Top(stk)
    IN IF ~Contains(f.flags, RLE)
       THEN Cont(p, SetTop(stk, [f EXCEPT !.rle_len = f.len,
                                          !.pc = "core"]))
       ELSE With(decode_rle_meta(inp, p, f.n, bld), LAMBDA m :
              IF m.st # "ok" THEN Fail(m.pos, m.st, "rle_meta")
              ELSE Cont(m.pos, SetTop(stk, [f EXCEPT !.rle_len = f.len,
                                                     !.l = m.l,
                                                     !.rle_meta = m.meta,
                                                     !.rle_mpos = m.mpos,
                                                     !.len = m.len,
                                                     !.pc = "core"])))

\* ORDER is looked at before CAT
core_kind_order_first(flags) ==
    IF Contains(flags, ORDER) THEN "order_1"
    ELSE IF Contains(flags, CAT) THEN "cat"
    ELSE "order_0"

\* which core stage the flags select
core_kind(flags) ==
    IF Contains(flags, CAT) THEN "cat"
    ELSE IF Contains(flags, ORDER) THEN "order_1"
    ELSE "order_0"

\* let mut data = vec![0; len]; CAT: read_exact; ORDER: order_1::decode;
\* else order_0::decode, which starts by reading its alphabet
decode_core(inp, p, stk, bld) ==
    LET f == Top(stk)
        kind == core_kind(f.flags)
        got(r) == IF r.st # "ok" THEN Fail(r.pos, r.st, kind)
                  ELSE Cont(r.pos, SetTop(stk, [f EXCEPT !.data = r.val,
                                                         !.core = r.val,
                                                         !.body = p,
                                                         !.pc = "rle"]))
    IN IF kind = "cat" THEN With(read_exact(inp, p, f.len), got)
       ELSE IF kind = "order_1"
       THEN With(order_1_decode(inp, p, f.len, f.n, bld), got)
       ELSE With(read_alphabet_begin(inp, p), LAMBDA a :
              IF a.st # "loop" THEN Fail(a.pos, a.st, "alphabet")
              ELSE Cont(a.pos, SetTop(stk, [f EXCEPT !.al = a, !.body = p,
                                                     !.pc = "alphabet"])))

\* one iteration of read_alphabet's loop, for order_0::decode
order_0_alphabet(inp, p, stk, bld) ==
    LET f == Top(stk)
        a == read_alphabet_iter(inp, f.al, bld)
    IN IF a.st \in {"eof", "panic"} THEN Fail(a.pos, a.st, "alphabet")
       ELSE Cont(a.pos, SetTop(stk, [f EXCEPT !.al = a,
                                     !.pc = IF a.st = "done" THEN "order_0"
                                            ELSE "alphabet"]))

\* order_0::decode after its alphabet: frequencies, lane states, symbols
order_0_rest(inp, p, stk, bld) ==
    LET f == Top(stk)
    IN With(order_0_body(inp, p, f.al.alphabet, f.len, f.n, bld), LAMBDA r :
         IF r.st # "ok" THEN Fail(r.pos, r.st, "order_0")
         ELSE Cont(r.pos, SetTop(stk, [f EXCEPT !.data = r.val,
                                                !.core = r.val,
                                                !.pc = "rle"])))

\* the length of the core data instead of the length before RLE
rle_target_core(f) == f.len

\* the length rle::decode is asked to produce
rle_target(f) == f.rle_len

\* if RLE { data = rle::decode(&data, &l, &mut rle_meta, rle_len)?; }
decode_rle_stage(inp, p, stk, bld) ==
    LET f == Top(stk)
    IN IF ~Contains(f.flags, RLE)
       THEN Cont(p, SetTop(stk, [f EXCEPT !.pc = "pack"]))
       ELSE With(rle_decode(f.data, f.l, f.rle_meta, f.rle_mpos,
                            rle_target(f)),
                 LAMBDA r :
                   IF r.st # "ok" THEN Fail(p, r.st, "rle")
                   ELSE Cont(p, SetTop(stk, [f EXCEPT !.data = r.val,
                                                      !.runs = r.runs,
                                                      !.rle_mpos = r.mpos,
                                                      !.pc = "pack"])))

\* the length of the packed data instead of the original length
pack_target_packed(f) == Len(f.data)

\* the length pack::decode is asked to produce
pack_target(f) == f.pack_len

\* if PACK { data = pack::decode(&data, &p, n_sym, pack_len)?; }
decode_pack_stage(inp, p, stk, bld) ==
    LET f == Top(stk)
    IN IF ~Contains(f.flags, PACK)
       THEN Cont(p, SetTop(stk, [f EXCEPT !.pc = "return"]))
       ELSE With(pack_decode(f.data, f.p, f.n_sym, pack_target(f)),
                 LAMBDA r :
                   IF r.st # "ok" THEN Fail(p, r.st, "pack")
                   ELSE Cont(p, SetTop(stk, [f EXCEPT !.data = r.val,
                                                      !.pc = "return"])))

\* Ok(data)
decode_return(inp, p, stk, bld) == Return(p, stk, Top(stk).data)

-----------------------------------------------------------------------------
(* rans_decode_stripe *)

\* let x = reader.read_u8().map(usize::from)?;
stripe_read_count(inp, p, stk, bld) ==
    LET f == Top(stk)
        r == read_u8(inp, p)
    IN IF r.st # "ok" THEN Fail(r.pos, "eof", "stripe_count")
       ELSE Cont(r.pos, SetTop(stk, [f EXCEPT !.x = r.val,
                                     !.pc = IF r.val = 0 THEN "interleave"
                                            ELSE "clens"]))

\* for _ in 0..x { clens.push(read_uint7(reader)?); }
stripe_read_clen(inp, p, stk, bld) ==
    LET f == Top(stk)
        r == read_uint7(inp, p)
    IN IF r.st # "ok" THEN Fail(r.pos, "eof", "stripe_clen")
       ELSE Cont(r.pos, SetTop(stk, [f EXCEPT !.clens = Append(@, r.val),
                                     !.pc = IF Len(f.clens) + 1 = f.x
                                            THEN "sub" ELSE "clens"]))

\* the remainder is taken by the stripe count
stripe_ulen_by_count(len, x, n, j) ==
    (len \div x) + (IF len % x > j THEN 1 ELSE 0)

\* let mut ulen = len / x; if len % (n as usize) > j { ulen += 1; }
stripe_ulen(len, x, n, j) == (len \div x) + (IF len % n > j THEN 1 ELSE 0)

\* let chunk = decode(reader, ulen)?;   for stripe j = t.len()
stripe_call_sub(inp, p, stk, bld) ==
    LET f == Top(stk)
        ulen == stripe_ulen(f.len, f.x, f.n, Len(f.t))
    IN Cont(p, Append(SetTop(stk, [f EXCEPT !.ulen = ulen,
                                            !.starts = Append(@, p),
                                            !.pc = "sub_ret"]),
                      decode_frame(ulen)))

\* ulens.push(ulen); t.push(chunk);
stripe_push_chunk(inp, p, stk, bld) ==
    LET f == Top(stk)
    IN Cont(p, SetTop(stk, [f EXCEPT !.ulens = Append(@, f.ulen),
                                     !.t = Append(@, f.ret),
                                     !.ends = Append(@, p),
                                     !.pc = IF Len(f.t) + 1 = f.x
                                            THEN "interleave" ELSE "sub"]))

\* the output index of the i-th symbol of stripe j
stripe_index(i, n, j) == i * n + j

RECURSIVE interleave(_, _, _, _, _, _, _)
\* for j in 0..x { for i in 0..ulens[j] { dst[i * n + j] = t[j][i]; } }
\* an index outside t[j] or dst panics
interleave(dst, t, ulens, n, x, j, i) ==
    IF j >= x THEN [st |-> "ok", site |-> "", val |-> dst]
    ELSE IF i >= ulens[j + 1] THEN interleave(dst, t, ulens, n, x, j + 1, 0)
    ELSE IF i >= Len(t[j + 1])
    THEN [st |-> "panic", site |-> "chunk_index", val |-> <<>>]
    ELSE IF stripe_index(i, n, j) >= Len(dst)
    THEN [st |-> "panic", site |-> "dst_index", val |-> <<>>]
    ELSE interleave([dst EXCEPT ![stripe_index(i, n, j) + 1] =
                                    t[j + 1][i + 1]],
                    t, ulens, n, x, j, i + 1)

\* a buffer as long as the chunks together
stripe_dst_chunks(f) == [k \in 1..SumSeq(f.ulens) |-> 0]

\* let mut dst = vec![0; len];
stripe_dst(f) == [k \in 1..f.len |-> 0]

\* the interleave loops over dst; Ok(dst)
stripe_interleave(inp, p, stk, bld) ==
    With(interleave(stripe_dst(Top(stk)), Top(stk).t, Top(stk).ulens,
                    Top(stk).n, Top(stk).x, 0, 0),
         LAMBDA r : IF r.st # "ok" THEN Fail(p, r.st, r.site)
                    ELSE Return(p, stk, r.val))

-----------------------------------------------------------------------------
(* The machine's step, and a whole call as its iteration *)

Step(inp, c, bld) ==
    LET f == Top(c.stack)
        at == <<f.fn, f.pc>>
    IN CASE at = <<"decode", "flags">> ->
                decode_read_flags(inp, c.pos, c.stack, bld)
         [] at = <<"decode", "size">> ->
                decode_read_size(inp, c.pos, c.stack, bld)
         [] at = <<"decode", "select">> ->
                decode_select(inp, c.pos, c.stack, bld)
         [] at = <<"decode", "stripe_ret">> ->
                decode_return_stripe(inp, c.pos, c.stack, bld)
         [] at = <<"decode", "pack_meta">> ->
                decode_pack_meta_stage(inp, c.pos, c.stack, bld)
         [] at = <<"decode", "rle_meta">> ->
                decode_rle_meta_stage(inp, c.pos, c.stack, bld)
         [] at = <<"decode", "core">> ->
                decode_core(inp, c.pos, c.stack, bld)
         [] at = <<"decode", "alphabet">> ->
                order_0_alphabet(inp, c.pos, c.stack, bld)
         [] at = <<"decode", "order_0">> ->
                order_0_rest(inp, c.pos, c.stack, bld)
         [] at = <<"decode", "rle">> ->
                decode_rle_stage(inp, c.pos, c.stack, bld)
         [] at = <<"decode", "pack">> ->
                decode_pack_stage(inp, c.pos, c.stack, bld)
         [] at = <<"decode", "return">> ->
                decode_return(inp, c.pos, c.stack, bld)
         [] at = <<"stripe", "x">> ->
                stripe_read_count(inp, c.pos, c.stack, bld)
         [] at = <<"stripe", "clens">> ->
                stripe_read_clen(inp, c.pos, c.stack, bld)
         [] at = <<"stripe", "sub">> ->
                stripe_call_sub(inp, c.pos, c.stack, bld)
         [] at = <<"stripe", "sub_ret">> ->
                stripe_push_chunk(inp, c.pos, c.stack, bld)
         [] at = <<"stripe", "interleave">> ->
                stripe_interleave(inp, c.pos, c.stack, bld)

RECURSIVE Run(_, _, _)
Run(inp, c, bld) == IF c.stack = <<>> THEN c ELSE Run(inp, Step(inp, c, bld), bld)

\* decode(&mut reader, len) on the bytes inp
decode(inp, len, bld) == Run(inp, Cont(0, <<decode_frame(len)>>), bld)

-----------------------------------------------------------------------------
(* The inputs of decode: the byte vectors of the repository's tests, and   *)
(* blocks built here for every transform; each also cut at every length.   *)

\* test_decode_order_0
GoldenOrder0 ==
    <<0, 7, 100, 101, 0, 108, 110, 111, 0, 115, 0, 1, 1, 1, 1, 3, 1, 0, 38,
      32, 0, 0, 184, 10, 0, 0, 216, 10, 0, 0, 0, 4, 0>>

\* test_decode_stripe
GoldenStripe ==
    <<8, 7, 4, 23, 23, 23, 21, 0, 2, 108, 110, 0, 1, 1, 0, 8, 1, 0, 0, 0,
      1, 0, 0, 128, 0, 0, 0, 128, 0, 0, 0, 2, 101, 111, 0, 1, 1, 0, 8, 1,
      0, 0, 0, 1, 0, 0, 128, 0, 0, 0, 128, 0, 0, 0, 2, 111, 115, 0, 1, 1,
      0, 0, 1, 0, 0, 8, 1, 0, 0, 128, 0, 0, 0, 128, 0, 0, 0, 1, 100, 0, 1,
      0, 128, 0, 0, 0, 128, 0, 0, 0, 128, 0, 0, 0, 128, 0, 0, 0, 2, 0, 0,
      0, 0, 0, 0, 0, 34, 0, 129, 17, 1, 127, 0>>

\* test_decode_uncompressed
GoldenCat == <<32, 7, 110, 111, 111, 100, 108, 101, 115>>

\* test_decode_rle
GoldenRle ==
    <<64, 13, 6, 6, 23, 1, 7, 111, 0, 2, 1, 1, 0, 0, 1, 0, 0, 12, 2, 0, 0,
      8, 2, 0, 0, 128, 0, 0, 100, 101, 0, 108, 110, 111, 0, 115, 0, 3, 1,
      1, 1, 1, 1, 0, 58, 32, 0, 0, 124, 32, 0, 0, 82, 1, 0, 0, 8, 4, 0>>

\* test_decode_bit_packing_with_6_symbols
GoldenPack ==
    <<128, 7, 6, 100, 101, 108, 110, 111, 115, 4, 4, 5, 0, 18, 67, 0, 1, 1,
      1, 1, 0, 12, 2, 0, 0, 0, 2, 0, 0, 8, 2, 0, 0, 4, 2, 0>>

RECURSIVE Concat(_)
Concat(ss) == IF ss = <<>> THEN <<>> ELSE Head(ss) \o Concat(Tail(ss))

Payload(k) == [i \in 1..k |-> 96 + i]

\* a CAT block with its size field
CatBlock(extra, k) == <<CAT + extra, k>> \o Payload(k)

\* the other flag bits a generated block carries
ExtraBits == {0, N32, ORDER}

CatInputs ==
    { CatBlock(e, k) : e \in ExtraBits, k \in 0..MaxPayload }
    \cup { <<CAT + NO_SIZE>> \o Payload(MaxPayload) }

\* a stripe block of x CAT sub-blocks, each with its own size field k
StripeSized(extra, len, x, k) ==
    <<STRIPE + extra, len, x>> \o [j \in 1..x |-> k + 2]
    \o Concat([j \in 1..x |-> CatBlock(0, k)])

\* a stripe block of x CAT sub-blocks without size fields, laid out for
\* lane width n
StripeNoSize(extra, len, x, n) ==
    <<STRIPE + extra, len, x>>
    \o [j \in 1..x |-> 1 + (len \div x) + (IF len % n > j - 1 THEN 1 ELSE 0)]
    \o Concat([j \in 1..x |->
                 <<CAT + NO_SIZE>>
                 \o Payload((len \div x) + (IF len % n > j - 1 THEN 1 ELSE 0))])

StripeInputs ==
    { StripeSized(e, len, x, k) :
        e \in {0, N32, PACK + RLE + CAT + ORDER},
        len \in 0..(MaxPayload + 1), x \in 0..MaxStripes, k \in 0..MaxPayload }
    \cup { StripeNoSize(0, len, x, 4) :
             len \in 0..(MaxPayload + 1), x \in 1..MaxStripes }
    \cup { <<STRIPE + NO_SIZE, 1, 2>> \o CatBlock(0, k) : k \in 0..MaxPayload }
    \cup { <<STRIPE, len, 1, 2, STRIPE + NO_SIZE, 0>> : len \in 0..1 }

\* an RLE block over a CAT core <<97, b>>: 97 is flagged, run count cnt
RleBlock(len, cnt, b) == <<RLE + CAT, len, 7, 2, 1, 97, cnt, 97, b>>

RleInputs ==
    { RleBlock(len, cnt, b) :
        len \in 0..(MaxPayload + 3), cnt \in 0..MaxPayload, b \in {97, 98} }

\* a PACK block over a CAT core
PackBlock(len, n_sym, packed) ==
    <<PACK + CAT, len, n_sym>> \o [i \in 1..n_sym |-> 64 + i]
    \o <<Len(packed)>> \o packed

PackInputs ==
    { PackBlock(len, n_sym, packed) :
        len \in 0..(MaxPayload + 1), n_sym \in {0, 1, 2, 3, 5, 17},
        packed \in {<<>>, <<0>>, <<1>>, <<33>>, <<255>>, <<2, 1>>} }

\* an RLE block whose meta flags all 256 symbols (m = 0): the core <<97>>
\* with the run count 1
RleAllBlock ==
    <<RLE + CAT, 2, 132, 5, 1, 0>> \o [i \in 1..256 |-> i - 1] \o <<1, 97>>

\* RLE blocks whose meta is shorter than 1 + m bytes
RleShortMeta ==
    { <<RLE + CAT, 2, 5, 2, 2, 97, 97, 98>>,
      <<RLE + CAT, 2, 7, 2, 0, 97, 1, 97, 98>>,
      <<RLE + CAT, 2, 1, 2, 97, 98>> }

\* RLE and PACK together: 16 one-bit symbols, packed into <<5, 5>>, which
\* RLE stores as the one byte 5 with run count 1
RlePackBlock(len) == <<RLE + PACK + CAT, len, 2, 65, 66, 2, 7, 1, 1, 5, 1, 5>>

\* order-0 blocks: an alphabet with a run; a run that passes symbol 255
Order0Run ==
    <<0, 2, 97, 98, 1, 0, 1, 1, 2, 0, 0, 1, 0, 0, 0, 1, 0, 0, 0, 1, 0,
      0, 0, 1, 0, 0, 0, 0, 0>>

Order0Overflow == <<0, 1, 254, 255, 1, 0>>

\* an order-0 block whose alphabet names 258 symbols (5, 3, 5, 3, ...)
\* before its terminator
LongAlphabet ==
    <<0, 1>> \o [i \in 1..258 |-> IF i % 2 = 1 THEN 5 ELSE 3] \o <<0>>

\* an order-1 block: context 0 only, with the one symbol 97
Order1Block ==
    <<ORDER, 2, 0, 0, 97, 0, 1, 0, 0, 1, 0, 0, 0, 1, 0, 0, 0, 1, 0,
      0, 0, 1, 0>>

WholeInputs ==
    {GoldenOrder0, GoldenStripe, GoldenCat, GoldenRle, GoldenPack,
     Order0Run, Order0Overflow, LongAlphabet, Order1Block,
     RlePackBlock(16), RlePackBlock(15)}
    \cup CatInputs \cup StripeInputs \cup RleInputs \cup PackInputs
    \cup {RleAllBlock} \cup RleShortMeta

\* the blocks that are also cut at every length
Truncated ==
    {GoldenOrder0, GoldenStripe, GoldenCat, GoldenRle, GoldenPack,
     Order0Run, Order0Overflow, Order1Block, RlePackBlock(16),
     StripeSized(0, 2, 2, 1), RleBlock(3, 1, 98),
     PackBlock(2, 3, <<1>>), <<STRIPE, 0, 1, 2, STRIPE + NO_SIZE, 0>>}

Inputs == WholeInputs \cup UNION { Prefixes(s) : s \in Truncated }

Builds == {"debug", "release"}

-----------------------------------------------------------------------------
(* Specification of one decode call *)

LookupIdle ==
    cumulative_freqs = <<>> /\ freq = 0 /\ sym_out = 0 /\ lpc = "off"

MwIdle ==
    /\ mpc = "off" /\ mop = "none" /\ mbuf = 0 /\ submitted = <<>>
    /\ write_q = <<>> /\ deflate_q = <<>> /\ chans = <<>> /\ dthreads = <<>>
    /\ wthread = "off" /\ inner = <<>> /\ handles = <<>> /\ fails = {}
    /\ rets = <<>>

ParserIdle ==
    /\ ctx = "off" /\ header = "off" /\ reference_sequences = <<>>
    /\ read_groups = <<>> /\ programs = <<>> /\ comments = <<>>
    /\ calls = <<>> /\ ppc = "off"

LaneIdle ==
    /\ lane_r = [hi |-> 0, lo |-> 0]
    /\ lane_prev = [op |-> "none", hi |-> 0, lo |-> 0, pos |-> 0, n |-> 0]
    /\ lane_cf = <<>> /\ lane_in = <<>> /\ lane_pos = 0 /\ lane_pc = "off"
    /\ lane_build = "release"

\* no Builder
CsiIdle ==
    /\ bin_builders = <<>> /\ linear_index = <<>>
    /\ start_position = 0 /\ end_position = 0
    /\ mapped_record_count = 0 /\ unmapped_record_count = 0
    /\ added = <<>> /\ built = <<>>

DecIdle ==
    /\ input = <<>> /\ hint = 0 /\ build = "release" /\ pos = 0
    /\ stack = <<>> /\ result = NoResult

DecInit ==
    /\ input \in Inputs
    /\ hint \in 0..MaxHint
    /\ build \in Builds
    /\ pos = 0
    /\ stack = <<decode_frame(hint)>>
    /\ result = NoResult

At(fn, pc) == stack # <<>> /\ Top(stack).fn = fn /\ Top(stack).pc = pc

Apply(c) ==
    /\ pos' = c.pos
    /\ stack' = c.stack
    /\ result' = c.result
    /\ UNCHANGED <<input, hint, build, lookupVars, mwVars, parserVars, laneVars, csiVars>>

DecodeReadFlags ==
    At("decode", "flags") /\ Apply(decode_read_flags(input, pos, stack, build))

DecodeReadSize ==
    At("decode", "size") /\ Apply(decode_read_size(input, pos, stack, build))

DecodeSelect ==
    At("decode", "select") /\ Apply(decode_select(input, pos, stack, build))

DecodeReturnStripe ==
    /\ At("decode", "stripe_ret")
    /\ Apply(decode_return_stripe(input, pos, stack, build))

DecodePackMeta ==
    /\ At("decode", "pack_meta")
    /\ Apply(decode_pack_meta_stage(input, pos, stack, build))

DecodeRleMeta ==
    /\ At("decode", "rle_meta")
    /\ Apply(decode_rle_meta_stage(input, pos, stack, build))

DecodeCore ==
    At("decode", "core") /\ Apply(decode_core(input, pos, stack, build))

Order0Alphabet ==
    /\ At("decode", "alphabet")
    /\ Apply(order_0_alphabet(input, pos, stack, build))

Order0Rest ==
    At("decode", "order_0") /\ Apply(order_0_rest(input, pos, stack, build))

DecodeRle ==
    At("decode", "rle") /\ Apply(decode_rle_stage(input, pos, stack, build))

DecodePack ==
    At("decode", "pack") /\ Apply(decode_pack_stage(input, pos, stack, build))

DecodeReturn ==
    At("decode", "return") /\ Apply(decode_return(input, pos, stack, build))

StripeReadCount ==
    At("stripe", "x") /\ Apply(stripe_read_count(input, pos, stack, build))

StripeReadClen ==
    At("stripe", "clens") /\ Apply(stripe_read_clen(input, pos, stack, build))

StripeCallSub ==
    At("stripe", "sub") /\ Apply(stripe_call_sub(input, pos, stack, build))

StripePushChunk ==
    /\ At("stripe", "sub_ret")
    /\ Apply(stripe_push_chunk(input, pos, stack, build))

StripeInterleave ==
    /\ At("stripe", "interleave")
    /\ Apply(stripe_interleave(input, pos, stack, build))

DecNext ==
    \/ DecodeReadFlags \/ DecodeReadSize \/ DecodeSelect
    \/ DecodeReturnStripe \/ DecodePackMeta \/ DecodeRleMeta \/ DecodeCore
    \/ Order0Alphabet \/ Order0Rest \/ DecodeRle \/ DecodePack
    \/ DecodeReturn \/ StripeReadCount \/ StripeReadClen \/ StripeCallSub
    \/ StripePushChunk \/ StripeInterleave

Init == DecInit /\ LookupIdle /\ MwIdle
    /\ ParserIdle /\ LaneIdle /\ CsiIdle

Next == DecNext

Spec == Init /\ [][Next]_vars

-----------------------------------------------------------------------------
(* Properties of decode *)

Done == stack = <<>>

Ok == Done /\ result.st = "ok"

\* the flag byte of the outermost block
TopFlags == IF input = <<>> THEN 0 ELSE input[1]

\* the length the outermost call declares: its size field, or with NO_SIZE
\* the caller's len
DeclaredLen ==
    IF Contains(TopFlags, NO_SIZE) THEN hint ELSE read_uint7(input, 1).val

\* the caller's len of the running call: the outermost caller's hint, or
\* the ulen its stripe decoder asked for
CallerLen ==
    IF Len(stack) = 1 THEN hint ELSE stack[Len(stack) - 1].ulen

\* C1: whenever decode returns Ok, the returned buffer is as long as the
\* declared uncompressed length (the size field, or the caller's len with
\* NO_SIZE); the same holds of every nested call about to return
C1_OutputLength ==
    /\ Ok => Len(result.out) = DeclaredLen
    /\ At("decode", "return") => Len(Top(stack).data) = Top(stack).pack_len
    /\ At("decode", "stripe_ret") => Len(Top(stack).ret) = Top(stack).len

\* a stripe block of several chunks has been decoded
C1_Witness ==
    /\ Ok /\ Contains(TopFlags, STRIPE) /\ ~Contains(TopFlags, NO_SIZE)
    /\ Len(result.out) > 1

\* C2: without NO_SIZE the size field replaces the caller's len, so the
\* result is the same for every len the caller passes; with NO_SIZE no size
\* field is read and the caller's len is the declared length
C2_SizeField ==
    /\ (Done /\ ~Contains(TopFlags, NO_SIZE)) =>
          \A h \in 0..MaxHint : decode(input, h, build).result = result
    /\ At("decode", "select") =>
          IF Contains(Top(stack).flags, NO_SIZE)
          THEN /\ pos = Top(stack).entry + 1
               /\ Top(stack).len = CallerLen
          ELSE /\ pos = read_uint7(input, Top(stack).entry + 1).pos
               /\ Top(stack).len = read_uint7(input, Top(stack).entry + 1).val

\* a sized block returned data although the caller's len differs from its
\* size field
C2_Witness ==
    /\ Ok /\ ~Contains(TopFlags, NO_SIZE) /\ hint # Len(result.out)
    /\ Len(result.out) > 0

\* C3: an input that ends before a read decode needs (the decode without
\* overflow checks runs off its end) gives UnexpectedEof in every build,
\* never a panic
C3_TruncationIsEof ==
    (Done /\ decode(input, hint, "release").result.st = "eof")
        => result.st = "eof"

\* the (stripe j, position i) pairs the interleave loops visit
StripePairs(f) ==
    { <<j, i>> \in (0..(f.x - 1)) \X (0..Max(0, SumSeq(f.ulens))) :
        i < f.ulens[j + 1] }

\* C4: when the interleave starts, every output index in [0, len) is the
\* index i*n + j of exactly one (stripe j, position i) pair, and no pair
\* has an index outside [0, len)
C4_InterleaveCoversOnce ==
    At("stripe", "interleave") =>
        LET f == Top(stack)
        IN /\ \A idx \in 0..(f.len - 1) :
                 Cardinality({ q \in StripePairs(f) :
                                 stripe_index(q[2], f.n, q[1]) = idx }) = 1
           /\ \A q \in StripePairs(f) : stripe_index(q[2], f.n, q[1]) < f.len

\* C5: the stripe decoder fails with an error value and never panics on an
\* index outside a chunk or outside the output buffer
C5_StripeFailsWithError ==
    result.st = "panic" => result.site \notin {"chunk_index", "dst_index"}

\* the steps a frame can still take before it reads a byte, returns or
\* calls, for the running frame: by its place in the code, and for an
\* alphabet loop also by its pending run
PcWeight(f) ==
    CASE f.pc = "size" -> 13
      [] f.pc = "select" -> 12
      [] f.pc = "pack_meta" -> 9
      [] f.pc = "rle_meta" -> 8
      [] f.pc = "core" -> 7
      [] f.pc = "rle" -> 6
      [] f.pc = "pack" -> 5
      [] f.pc = "return" -> 4
      [] f.pc = "stripe_ret" -> 4
      [] f.pc = "alphabet" -> 2 + f.al.rle
      [] f.pc = "sub" -> 12
      [] f.pc = "sub_ret" -> 13
      [] f.pc = "interleave" -> 5
      [] OTHER -> 1

\* a number that every step of decode makes smaller: the bytes left to
\* read count most, then the frames that wait for a call (10 each), then
\* the running frame
Variant ==
    300 * (Len(input) - pos)
    + (IF stack = <<>> THEN 0
       ELSE 10 * (Len(stack) - 1) + PcWeight(Top(stack)))

\* C6: decode terminates: every step (a loop iteration of read_alphabet, a
\* call, a return, a stage) consumes an input byte or uses up a bounded
\* counter, so a natural number gets smaller with every step
C6_Terminates == [][Variant' < Variant /\ Variant' >= 0]_vars

\* a stripe block whose chunks have alphabets has been decoded to the end
C6_Witness == Ok /\ input = GoldenStripe /\ Variant < 300 * Len(input)

\* the positions of the core data whose symbol is flagged in l
RleFlagged(f) == { i \in 1..Len(f.core) : f.core[i] \in f.l }

\* where the run counts start in the meta bytes: after m and the m symbols
RleCountsBase(f) == 1 + rle_symbol_count(f.rle_meta[1])

\* the run count of the flagged position i: the counts are taken in order
RleCountOf(f, i) ==
    f.rle_meta[RleCountsBase(f)
               + Cardinality({ k \in RleFlagged(f) : k < i }) + 1]

RECURSIVE Repeat(_, _)
\* each byte of src as often as runs says
Repeat(src, runs) ==
    IF src = <<>> THEN <<>>
    ELSE [k \in 1..Head(runs) |-> Head(src)] \o Repeat(Tail(src), Tail(runs))

\* C8: after the RLE stage the data has exactly the length declared before
\* the RLE meta was read; a flagged symbol is emitted count + 1 times for
\* the count read for it, any other symbol once, and only flagged symbols
\* take a count from the control stream (counts below 128: one byte each)
C8_RleExpansion ==
    (/\ At("decode", "pack") /\ Contains(Top(stack).flags, RLE)
     /\ \A k \in 1..Len(Top(stack).rle_meta) : Top(stack).rle_meta[k] < 128)
    => LET f == Top(stack)
       IN /\ Len(f.data) = f.rle_len
          /\ Len(f.runs) = Len(f.core)
          /\ \A i \in 1..Len(f.core) :
               f.runs[i] = IF i \in RleFlagged(f) THEN RleCountOf(f, i) + 1
                           ELSE 1
          /\ f.data = Repeat(f.core, f.runs)
          /\ f.rle_mpos = RleCountsBase(f) + Cardinality(RleFlagged(f))

\* a flagged symbol was repeated and an unflagged one passed through
C8_Witness ==
    /\ At("decode", "pack") /\ Contains(Top(stack).flags, RLE)
    /\ \E i \in 1..Len(Top(stack).core) : Top(stack).runs[i] > 1
    /\ \E i \in 1..Len(Top(stack).core) :
          Top(stack).core[i] \notin Top(stack).l

\* C9: after the PACK stage the data has the length declared before the
\* pack meta was read, and every byte of it is an entry of the n_sym-entry
\* symbol table
C9_PackExpansion ==
    (At("decode", "return") /\ Contains(Top(stack).flags, PACK))
    => LET f == Top(stack)
       IN /\ Len(f.data) = f.pack_len
          /\ Len(f.p) = f.n_sym
          /\ \A i \in 1..Len(f.data) :
               \E k \in 1..f.n_sym : f.data[i] = f.p[k]

\* several symbols of a table of more than two entries were unpacked
C9_Witness ==
    /\ At("decode", "return") /\ Contains(Top(stack).flags, PACK)
    /\ Top(stack).n_sym > 2 /\ Len(Top(stack).data) > 1
    /\ Len(Top(stack).data) # Len(Top(stack).core)

-----------------------------------------------------------------------------
(* Specification of one symbol lookup: rans_get_symbol_from_freq run step  *)
(* by step on a cumulative table.                                          *)

\* the symbols that may have a non-zero frequency in a generated table
LookupSymbols == {0, 1, 254, 255}

\* the frequency tables: every symbol outside LookupSymbols has frequency 0
LookupFreqs ==
    { [s \in 0..255 |-> IF s \in LookupSymbols THEN g[s] ELSE 0] :
        g \in [LookupSymbols -> 0..MaxFreq] }

\* cum[256], the total of the table
Total(cf) == cf[256]

LookupInit ==
    /\ cumulative_freqs \in
           { cumulative(fr, LookupSymbols) : fr \in LookupFreqs }
    /\ freq = 0
    /\ sym_out = 0
    /\ lpc = "idle"

\* the call with a slot below the total: let mut sym = 0;
LookupBegin ==
    /\ lpc = "idle"
    /\ \E slot \in 0..(Total(cumulative_freqs) - 1) : freq' = slot
    /\ sym_out' = 0
    /\ lpc' = "scan"
    /\ UNCHANGED <<cumulative_freqs, decVars, mwVars, parserVars, laneVars, csiVars>>

\* one iteration of the while loop: sym += 1;
LookupScan ==
    /\ lpc = "scan"
    /\ rans_scan_continues(cumulative_freqs, freq, sym_out)
    /\ sym_out' = sym_out + 1
    /\ UNCHANGED <<cumulative_freqs, freq, lpc, decVars, mwVars, parserVars, laneVars, csiVars>>

\* the loop condition fails: sym is returned
LookupReturn ==
    /\ lpc = "scan"
    /\ ~rans_scan_continues(cumulative_freqs, freq, sym_out)
    /\ lpc' = "done"
    /\ UNCHANGED <<cumulative_freqs, freq, sym_out, decVars, mwVars, parserVars, laneVars, csiVars>>

LookupNext == LookupBegin \/ LookupScan \/ LookupReturn

\* a lookup alone: no decode call and no writer
LookupStart == LookupInit /\ DecIdle /\ MwIdle
    /\ ParserIdle /\ LaneIdle /\ CsiIdle

LookupSpec == LookupStart /\ [][LookupNext]_vars

\* cum is monotone non-decreasing from cum[0] = 0
MonotoneTable(cf) ==
    /\ DOMAIN cf = 0..256
    /\ cf[0] = 0
    /\ \A s \in 0..255 : cf[s] <= cf[s + 1]

\* C7: on a monotone table with cum[0] = 0 and a slot below the total, the
\* symbol returned is the one symbol s with cum[s] <= slot < cum[s+1]: the
\* last index whose cumulative value is <= slot; its frequency is not zero
C7_SymbolLookup ==
    (/\ lpc = "done" /\ MonotoneTable(cumulative_freqs)
     /\ freq \in 0..(Total(cumulative_freqs) - 1))
    => /\ cumulative_freqs[sym_out] <= freq
       /\ freq < cumulative_freqs[sym_out + 1]
       /\ \A s \in 0..255 :
            (cumulative_freqs[s] <= freq /\ freq < cumulative_freqs[s + 1])
                => s = sym_out
       /\ \A s \in 0..255 : cumulative_freqs[s] <= freq => s <= sym_out
       /\ cumulative_freqs[sym_out + 1] - cumulative_freqs[sym_out] > 0
       /\ sym_out = rans_get_symbol_from_freq(cumulative_freqs, freq)

\* a lookup that passed symbols of frequency zero, whose cumulative value
\* equals the slot, and returned a later symbol
C7_Witness ==
    /\ lpc = "done" /\ sym_out >= 254
    /\ cumulative_freqs[2] = freq /\ cumulative_freqs[sym_out] = freq
    /\ cumulative_freqs[1] < freq

-----------------------------------------------------------------------------
(* MultithreadedWriter: the thread that owns the writer, worker_count      *)
(* deflater threads and the writer thread, over two bounded channels and   *)
(* one one-result channel per block.                                       *)

\* the block the inner writer gets for the data src: compress(&src)
compress(src) == [bgzf |-> src]

\* BGZF_EOF: the block of no data, which no submitted block is
BGZF_EOF == [bgzf |-> [id |-> 0, len |-> 0]]

\* the operations that can fail in a run: compress of block i, write_all of
\* block i, write_all of the EOF block (block 0)
FailPoints ==
    ({"compress", "write_all"} \X (1..MaxBlocks)) \cup {<<"write_all", 0>>}

\* crossbeam_channel::bounded(worker_count.get())
Capacity == Len(dthreads)

\* with_worker_count(worker_count, inner)
MwInit ==
    /\ mpc = "idle" /\ mop = "none" /\ mbuf = 0 /\ submitted = <<>>
    /\ write_q = <<>> /\ deflate_q = <<>> /\ chans = <<>>
    /\ \E worker_count \in 1..MaxWorkers :
          /\ dthreads = [k \in 1..worker_count |-> [pc |-> "recv", blk |-> 0]]
          /\ handles = [writer_handle |-> TRUE,
                        deflater_handles |-> worker_count,
                        write_tx |-> TRUE, deflate_tx |-> TRUE]
    /\ wthread = [pc |-> "recv", blk |-> 0, res |-> "none"]
    /\ inner = <<>>
    /\ fails \in {{}} \cup { {fp} : fp \in FailPoints }
    /\ rets = <<>>

MwOthers ==
    <<decVars, lookupVars, parserVars, laneVars, csiVars>>

\* flush(): send() unless the buffer is empty; `after` is where the caller
\* goes on when nothing is sent
EnterFlush(op, after) ==
    IF mbuf' = 0 THEN mpc' = after /\ mop' = (IF after = "idle" THEN "none" ELSE op)
    ELSE mpc' = "send_rx" /\ mop' = op

\* Write::write(buf) with a buf of k bytes: takes what fits, and flushes a
\* full buffer
Write ==
    /\ mpc = "idle" /\ Len(chans) < MaxBlocks
    /\ \E k \in 1..MaxBuf :
          /\ mbuf' = mbuf + Min(MaxBuf - mbuf, k)
          /\ IF mbuf' >= MaxBuf
             THEN mpc' = "send_rx" /\ mop' = "write"
             ELSE mpc' = "idle" /\ mop' = "none"
    /\ UNCHANGED <<submitted, write_q, deflate_q, chans, dthreads, wthread,
                   inner, handles, fails, rets, MwOthers>>

\* Write::flush() with bytes in the buffer
Flush ==
    /\ mpc = "idle" /\ mbuf > 0 /\ Len(chans) < MaxBlocks
    /\ mbuf' = mbuf
    /\ EnterFlush("flush", "idle")
    /\ UNCHANGED <<submitted, write_q, deflate_q, chans, dthreads, wthread,
                   inner, handles, fails, rets, MwOthers>>

\* finish(): self.flush()?;
Finish ==
    /\ mpc = "idle" /\ Len(rets) < MaxFinish
    /\ mbuf' = mbuf
    /\ EnterFlush("finish", "take_deflate_tx")
    /\ UNCHANGED <<submitted, write_q, deflate_q, chans, dthreads, wthread,
                   inner, handles, fails, rets, MwOthers>>

\* drop(): if self.writer_handle.is_some() { let _ = self.finish(); }
Drop ==
    /\ mpc = "idle"
    /\ mbuf' = mbuf
    /\ IF handles.writer_handle
       THEN EnterFlush("drop", "take_deflate_tx")
       ELSE mpc' = "dropped" /\ mop' = "none"
    /\ UNCHANGED <<submitted, write_q, deflate_q, chans, dthreads, wthread,
                   inner, handles, fails, rets, MwOthers>>

\* send(): self.write_tx.as_ref().unwrap().send(buffered_rx).unwrap();
\* unwrap panics on a taken write_tx and on a channel whose receiver (the
\* writer thread) is gone; send waits while the channel is full
SendRx ==
    /\ mpc = "send_rx"
    /\ IF ~handles.write_tx \/ wthread.pc = "done"
       THEN /\ mpc' = "panicked"
            /\ UNCHANGED <<write_q, chans>>
       ELSE /\ Len(write_q) < Capacity
            /\ write_q' = Append(write_q, Len(chans) + 1)
            /\ chans' = Append(chans, "empty")
            /\ mpc' = "send_msg"
    /\ UNCHANGED <<mop, mbuf, submitted, deflate_q, dthreads, wthread, inner,
                   handles, fails, rets, MwOthers>>

\* send(): let src = self.buf.split().freeze();
\*         self.deflate_tx.as_ref().unwrap().send((src, buffered_tx)).unwrap();
\* then the caller goes on: write and flush return, finish takes deflate_tx
SendMsg ==
    /\ mpc = "send_msg"
    /\ IF ~handles.deflate_tx
       THEN /\ mpc' = "panicked"
            /\ UNCHANGED <<mop, mbuf, submitted, deflate_q>>
       ELSE /\ Len(deflate_q) < Capacity
            /\ deflate_q' = Append(deflate_q, Len(chans))
            /\ submitted' = Append(submitted, [id |-> Len(chans), len |-> mbuf])
            /\ mbuf' = 0
            /\ IF mop \in {"finish", "drop"}
               THEN mpc' = "take_deflate_tx" /\ mop' = mop
               ELSE mpc' = "idle" /\ mop' = "none"
    /\ UNCHANGED <<write_q, chans, dthreads, wthread, inner, handles, fails,
                   rets, MwOthers>>

\* finish(): self.deflate_tx.take();
TakeDeflateTx ==
    /\ mpc = "take_deflate_tx"
    /\ handles' = [handles EXCEPT !.deflate_tx = FALSE]
    /\ mpc' = "join_deflaters"
    /\ UNCHANGED <<mop, mbuf, submitted, write_q, deflate_q, chans, dthreads,
                   wthread, inner, fails, rets, MwOthers>>

\* finish(): for handle in self.deflater_handles.drain(..) { handle.join() }
\* one handle at a time, each once its thread has ended
JoinDeflater ==
    /\ mpc = "join_deflaters"
    /\ IF handles.deflater_handles = 0
       THEN mpc' = "take_write_tx" /\ UNCHANGED handles
       ELSE /\ dthreads[Len(dthreads) - handles.deflater_handles + 1].pc
                 = "done"
            /\ handles' = [handles EXCEPT !.deflater_handles = @ - 1]
            /\ mpc' = "join_deflaters"
    /\ UNCHANGED <<mop, mbuf, submitted, write_q, deflate_q, chans, dthreads,
                   wthread, inner, fails, rets, MwOthers>>

\* finish(): self.write_tx.take();
TakeWriteTx ==
    /\ mpc = "take_write_tx"
    /\ handles' = [handles EXCEPT !.write_tx = FALSE]
    /\ mpc' = "join_writer"
    /\ UNCHANGED <<mop, mbuf, submitted, write_q, deflate_q, chans, dthreads,
                   wthread, inner, fails, rets, MwOthers>>

\* finish(): if let Some(handle) = self.writer_handle.take()
\*               { handle.join().unwrap()?; }  Ok(())
\* the value finish returns; drop discards it and the writer is gone
JoinWriter ==
    /\ mpc = "join_writer"
    /\ handles.writer_handle => wthread.pc = "done"
    /\ handles' = [handles EXCEPT !.writer_handle = FALSE]
    /\ rets' = Append(rets, IF handles.writer_handle /\ wthread.res = "err"
                            THEN "err" ELSE "ok")
    /\ mpc' = (IF mop = "drop" THEN "dropped" ELSE "idle")
    /\ mop' = "none"
    /\ UNCHANGED <<mbuf, submitted, write_q, deflate_q, chans, dthreads,
                   wthread, inner, fails, MwOthers>>

\* a panic of the owning thread ends the run
Running == mpc # "panicked"

\* deflater k: while let Ok((src, buffered_tx)) = deflate_rx.recv()
\* recv waits for a message, and fails once the channel is empty and
\* deflate_tx is gone
DeflaterRecv(k) ==
    /\ Running /\ dthreads[k].pc = "recv"
    /\ IF deflate_q # <<>>
       THEN /\ dthreads' = [dthreads EXCEPT ![k] =
                               [pc |-> "compress", blk |-> Head(deflate_q)]]
            /\ deflate_q' = Tail(deflate_q)
       ELSE /\ ~handles.deflate_tx
            /\ dthreads' = [dthreads EXCEPT ![k] = [pc |-> "done", blk |-> 0]]
            /\ UNCHANGED deflate_q
    /\ UNCHANGED <<mpc, mop, mbuf, submitted, write_q, chans, wthread, inner,
                   handles, fails, rets, MwOthers>>

\* deflater k: let result = compress(&src); buffered_tx.send(result).ok();
DeflaterSend(k) ==
    /\ Running /\ dthreads[k].pc = "compress"
    /\ chans' = [chans EXCEPT ![dthreads[k].blk] =
                    IF <<"compress", dthreads[k].blk>> \in fails
                    THEN "err" ELSE "ok"]
    /\ dthreads' = [dthreads EXCEPT ![k] = [pc |-> "recv", blk |-> 0]]
    /\ UNCHANGED <<mpc, mop, mbuf, submitted, write_q, deflate_q, wthread,
                   inner, handles, fails, rets, MwOthers>>

\* the writer thread takes the result channel sent last
WriterRecvLast ==
    /\ Running /\ wthread.pc = "recv"
    /\ IF write_q # <<>>
       THEN /\ wthread' = [wthread EXCEPT !.pc = "wait",
                                          !.blk = write_q[Len(write_q)]]
            /\ write_q' = SubSeq(write_q, 1, Len(write_q) - 1)
       ELSE /\ ~handles.write_tx
            /\ wthread' = [wthread EXCEPT !.pc = "eof", !.blk = 0]
            /\ UNCHANGED write_q
    /\ UNCHANGED <<mpc, mop, mbuf, submitted, deflate_q, chans, dthreads,
                   inner, handles, fails, rets, MwOthers>>

\* writer thread: while let Ok(buffered_rx) = write_rx.recv()
WriterRecv ==
    /\ Running /\ wthread.pc = "recv"
    /\ IF write_q # <<>>
       THEN /\ wthread' = [wthread EXCEPT !.pc = "wait", !.blk = Head(write_q)]
            /\ write_q' = Tail(write_q)
       ELSE /\ ~handles.write_tx
            /\ wthread' = [wthread EXCEPT !.pc = "eof", !.blk = 0]
            /\ UNCHANGED write_q
    /\ UNCHANGED <<mpc, mop, mbuf, submitted, deflate_q, chans, dthreads,
                   inner, handles, fails, rets, MwOthers>>

\* writer thread: if let Ok(result) = buffered_rx.recv()
\*                    { let buf = result?; writer.write_all(&buf[..])?; }
\* an error ends the thread, and with it write_rx
WriterWrite ==
    /\ Running /\ wthread.pc = "wait"
    /\ chans[wthread.blk] # "empty"
    /\ IF chans[wthread.blk] = "err" \/ <<"write_all", wthread.blk>> \in fails
       THEN /\ wthread' = [wthread EXCEPT !.pc = "done", !.res = "err"]
            /\ write_q' = <<>>
            /\ UNCHANGED inner
       ELSE /\ inner' = Append(inner, compress(submitted[wthread.blk]))
            /\ wthread' = [wthread EXCEPT !.pc = "recv", !.blk = 0]
            /\ UNCHANGED write_q
    /\ UNCHANGED <<mpc, mop, mbuf, submitted, deflate_q, chans, dthreads,
                   handles, fails, rets, MwOthers>>

\* writer thread: writer.write_all(BGZF_EOF)?; Ok(())
WriterEof ==
    /\ Running /\ wthread.pc = "eof"
    /\ IF <<"write_all", 0>> \in fails
       THEN /\ wthread' = [wthread EXCEPT !.pc = "done", !.res = "err"]
            /\ UNCHANGED inner
       ELSE /\ inner' = Append(inner, BGZF_EOF)
            /\ wthread' = [wthread EXCEPT !.pc = "done", !.res = "ok"]
    /\ UNCHANGED <<mpc, mop, mbuf, submitted, write_q, deflate_q, chans,
                   dthreads, handles, fails, rets, MwOthers>>

DeflaterReceives == \E k \in 1..Len(dthreads) : DeflaterRecv(k)

DeflaterSends == \E k \in 1..Len(dthreads) : DeflaterSend(k)

MwNext ==
    \/ Write \/ Flush \/ Finish \/ Drop
    \/ SendRx \/ SendMsg
    \/ TakeDeflateTx \/ JoinDeflater \/ TakeWriteTx \/ JoinWriter
    \/ DeflaterReceives \/ DeflaterSends
    \/ WriterRecv \/ WriterWrite \/ WriterEof

\* a writer alone: no decode call and no lookup
MwStart == MwInit /\ DecIdle /\ LookupIdle
    /\ ParserIdle /\ LaneIdle /\ CsiIdle

MwSpec == MwStart /\ [][MwNext]_vars
-----------------------------------------------------------------------------
(* Properties of the MultithreadedWriter *)

\* a call of finish has returned Ok
FinishReturnedOk == \E k \in 1..Len(rets) : rets[k] = "ok"

\* every thread has ended
ThreadsEnded ==
    /\ wthread.pc = "done"
    /\ \A k \in 1..Len(dthreads) : dthreads[k].pc = "done"

\* the compressed blocks of everything submitted, in order, then the EOF
\* block once
WholeStream ==
    [i \in 1..Len(submitted) |-> compress(submitted[i])] \o <<BGZF_EOF>>

\* C10: once finish has returned Ok, the inner writer has the compressed
\* form of every submitted block in order followed by the EOF block exactly
\* once as its last block, and the deflater threads and the writer thread
\* have ended
C10_FinishOk == FinishReturnedOk => (inner = WholeStream /\ ThreadsEnded)

-----------------------------------------------------------------------------
(* The SAM header Parser (noodles-sam, header/parser.rs).  A raw record is *)
(* a line: its kind, the key it carries (the SN of an @SQ, the ID of an    *)
(* @RG or @PG, the text of a @CO), the VN field of an @HD, and whether     *)
(* parse_record accepts it.                                                *)

\* most calls of parse_partial in one run
MaxRecords == 4

\* Option::None
None == "none"

\* the raw records handed to parse_partial
Lines ==
    [kind : {"HD"}, key : {""}, vn : {"1.6", "NA"}, valid : BOOLEAN]
    \cup [kind : {"SQ"}, key : {"sq0", "sq1"}, vn : {""}, valid : {TRUE}]
    \cup [kind : {"RG", "PG"}, key : {"id0"}, vn : {""}, valid : {TRUE}]
    \cup [kind : {"CO"}, key : {"ndls"}, vn : {""}, valid : {TRUE}]
    \cup [kind : {"SQ"}, key : {"sq0"}, vn : {"1.6"}, valid : {FALSE}]

\* self.header.is_none() && ... && self.comments.is_empty()
is_empty(h, sq, rg, pg, co) ==
    h = None /\ sq = <<>> /\ rg = <<>> /\ pg = <<>> /\ co = <<>>

\* the VN field of a line that starts with "@HD\t", when it parses as a
\* version
extract_version(src) ==
    IF src.kind = "HD" /\ src.vn # "NA" THEN src.vn ELSE None

\* parse_record(src, ctx): the record of the line, or an error
parse_record(src, c) ==
    IF src.valid THEN [st |-> "ok", kind |-> src.kind, key |-> src.key,
                       vn |-> src.vn]
    ELSE [st |-> "InvalidRecord"]

\* the place of key in an IndexMap's entries, 0 when it has none
index_of(map, key) ==
    IF \E i \in 1..Len(map) : map[i] = key
    THEN CHOOSE i \in 1..Len(map) : map[i] = key
    ELSE 0

\* Entry::Occupied::remove_entry: the last entry takes the place of the
\* removed one
swap_remove(map, i) ==
    [k \in 1..(Len(map) - 1) |-> IF k = i THEN map[Len(map)] ELSE map[k]]

\* try_insert(map, key, value, f): [map, ret]
try_insert(map, key, err) ==
    IF index_of(map, key) = 0
    THEN [map |-> Append(map, key), ret |-> "ok"]
    ELSE [map |-> swap_remove(map, index_of(map, key)), ret |-> err]

ParserInit ==
    /\ ctx = None /\ header = None /\ reference_sequences = <<>>
    /\ read_groups = <<>> /\ programs = <<>> /\ comments = <<>>
    /\ calls = <<>> /\ ppc = "open"

ParserOthers == <<decVars, lookupVars, mwVars, laneVars, csiVars>>

\* the call is logged with what it returned
Called(src, was_empty, ret) ==
    calls' = Append(calls, [src |-> src, was_empty |-> was_empty, ret |-> ret])

\* parse_partial(src)
ParsePartial ==
    /\ ppc = "open"
    /\ Len(calls) < MaxRecords
    /\ \E src \in Lines :
        LET empty == is_empty(header, reference_sequences, read_groups,
                              programs, comments)
            c == IF empty /\ extract_version(src) # None
                 THEN extract_version(src) ELSE ctx
            record == parse_record(src, c)
            sq == try_insert(reference_sequences, record.key,
                             "DuplicateReferenceSequenceName")
            rg == try_insert(read_groups, record.key, "DuplicateReadGroupId")
            pg == try_insert(programs, record.key, "DuplicateProgramId")
        IN /\ ctx' = c
           /\ IF record.st # "ok"
              THEN /\ Called(src, empty, record.st)
                   /\ UNCHANGED <<header, reference_sequences, read_groups,
                                  programs, comments>>
              ELSE CASE record.kind = "HD" ->
                        /\ header' = IF empty THEN record.vn
                                     ELSE header
                        /\ Called(src, empty, IF empty THEN "ok"
                                              ELSE "UnexpectedHeader")
                        /\ UNCHANGED <<reference_sequences, read_groups,
                                       programs, comments>>
                     [] record.kind = "SQ" ->
                        /\ reference_sequences' = sq.map
                        /\ Called(src, empty, sq.ret)
                        /\ UNCHANGED <<header, read_groups, programs,
                                       comments>>
                     [] record.kind = "RG" ->
                        /\ read_groups' = rg.map
                        /\ Called(src, empty, rg.ret)
                        /\ UNCHANGED <<header, reference_sequences, programs,
                                       comments>>
                     [] record.kind = "PG" ->
                        /\ programs' = pg.map
                        /\ Called(src, empty, pg.ret)
                        /\ UNCHANGED <<header, reference_sequences,
                                       read_groups, comments>>
                     [] record.kind = "CO" ->
                        /\ comments' = Append(comments, record.key)
                        /\ Called(src, empty, "ok")
                        /\ UNCHANGED <<header, reference_sequences,
                                       read_groups, programs>>
    /\ UNCHANGED <<ppc, ParserOthers>>

\* finish(self): the parser is consumed, its fields become the Header
ParserFinish ==
    /\ ppc = "open"
    /\ ppc' = "finished"
    /\ UNCHANGED <<ctx, header, reference_sequences, read_groups, programs,
                   comments, calls, ParserOthers>>

ParserNext == ParsePartial \/ ParserFinish

ParserStart == ParserInit /\ DecIdle /\ LookupIdle
    /\ MwIdle /\ LaneIdle /\ CsiIdle

ParserSpec == ParserStart /\ [][ParserNext]_vars

\* the calls that returned Ok, in order
Accepted == SelectSeq(calls, LAMBDA e : e.ret = "ok")

\* C11: a valid @HD record handed to a parser that already holds something
\* is refused with UnexpectedHeader, at most one @HD record is ever
\* accepted, and when the parser holds a header map its @HD record was the
\* first record accepted
C11_HeaderOnlyFirst ==
    /\ \A k \in 1..Len(calls) :
        (calls[k].src.kind = "HD" /\ calls[k].src.valid
         /\ ~calls[k].was_empty) => calls[k].ret = "UnexpectedHeader"
    /\ Cardinality({k \in 1..Len(Accepted) : Accepted[k].src.kind = "HD"}) <= 1
    /\ header # None => (Accepted # <<>> /\ Accepted[1].src.kind = "HD")

-----------------------------------------------------------------------------
(* More properties of decode: the order of its stages *)

\* the place of a statement of decode in the order of its stages
StageRank(pc) ==
    CASE pc = "flags" -> 1
      [] pc = "size" -> 2
      [] pc = "select" -> 3
      [] pc = "pack_meta" -> 4
      [] pc = "rle_meta" -> 5
      [] pc \in {"core", "alphabet", "order_0"} -> 6
      [] pc = "rle" -> 7
      [] pc = "pack" -> 8
      [] OTHER -> 9

\* where the size field of the running call ends
SizeEnd(f) ==
    IF Contains(f.flags, NO_SIZE) THEN f.entry + 1
    ELSE read_uint7(input, f.entry + 1).pos

\* the length the header of the running call declares
FrameDeclaredLen(f) ==
    IF Contains(f.flags, NO_SIZE) THEN CallerLen
    ELSE read_uint7(input, f.entry + 1).val

\* the pack meta, read right after the size field
PackMetaOf(f) == decode_pack_meta(input, SizeEnd(f))

\* where the RLE meta starts: after the pack meta when there is one
RleMetaStart(f) ==
    IF Contains(f.flags, PACK) THEN PackMetaOf(f).pos ELSE SizeEnd(f)

\* the running call is a decode call that goes on in the same call
SameCall ==
    /\ stack # <<>> /\ stack' # <<>> /\ Len(stack') = Len(stack)
    /\ Top(stack).fn = "decode" /\ Top(stack)'.fn = "decode"

\* every step within a call goes to the next stage (the core stage may take
\* several steps); a meta stage or an expansion whose flag is not set
\* changes nothing
StageStep ==
    SameCall =>
      LET f == Top(stack)
          g == Top(stack)'
      IN /\ \/ StageRank(g.pc) = StageRank(f.pc) + 1
            \/ StageRank(g.pc) = 6 /\ StageRank(f.pc) = 6
         /\ (f.pc = "pack_meta" /\ ~Contains(f.flags, PACK)) =>
                pos' = pos /\ g.len = f.len /\ g.p = f.p
         /\ (f.pc = "rle_meta" /\ ~Contains(f.flags, RLE)) =>
                pos' = pos /\ g.len = f.len /\ g.l = f.l
         /\ (f.pc = "rle" /\ ~Contains(f.flags, RLE)) => g.data = f.data
         /\ (f.pc = "pack" /\ ~Contains(f.flags, PACK)) => g.data = f.data

\* the lengths and the places in the stream of a call with RLE or PACK
StageLengths ==
    /\ (At("decode", "core") /\ Contains(Top(stack).flags, RLE)) =>
          LET f == Top(stack)
              m == decode_rle_meta(input, RleMetaStart(f), f.n, build)
          IN /\ m.st = "ok" /\ f.l = m.l /\ f.len = m.len /\ pos = m.pos
             /\ f.rle_len = IF Contains(f.flags, PACK) THEN PackMetaOf(f).len
                            ELSE FrameDeclaredLen(f)
    /\ (At("decode", "rle_meta") /\ Contains(Top(stack).flags, PACK)) =>
          /\ pos = PackMetaOf(Top(stack)).pos
          /\ Top(stack).len = PackMetaOf(Top(stack)).len
    /\ (At("decode", "pack") /\ Contains(Top(stack).flags, RLE)) =>
          Len(Top(stack).data) = Top(stack).rle_len
    /\ (At("decode", "return") /\ Contains(Top(stack).flags, PACK)) =>
          /\ Len(Top(stack).data) = Top(stack).pack_len
          /\ Top(stack).pack_len = FrameDeclaredLen(Top(stack))

\* C12: a block without STRIPE goes through flag byte, size field, pack
\* meta (if PACK), RLE meta (if RLE), core decode, RLE expansion (if RLE),
\* PACK expansion (if PACK) in this order; with both RLE and PACK the pack
\* meta comes first in the stream, RLE expands to the length the pack meta
\* gave and PACK to the length the header declares
C12_StageOrder == []StageLengths /\ [][StageStep]_vars

\* a block with RLE and PACK went through both expansions
C12_Witness ==
    /\ At("decode", "return")
    /\ Contains(Top(stack).flags, RLE) /\ Contains(Top(stack).flags, PACK)
    /\ Len(Top(stack).core) < Top(stack).rle_len
    /\ Top(stack).rle_len < Top(stack).pack_len

-----------------------------------------------------------------------------
(* More properties of decode: a block with STRIPE *)

\* the flag bits that select the transforms of a block without STRIPE
TransformBits == {ORDER, CAT, RLE, PACK}

\* the flag byte with its transform bits replaced by those of bits
WithTransformBits(flags, bits) ==
    flags - SumOver([b \in TransformBits |->
                       IF Contains(flags, b) THEN b ELSE 0], TransformBits)
          + SumOver([b \in TransformBits |->
                       IF b \in bits THEN b ELSE 0], TransformBits)

\* a call with STRIPE is either before its stripe call or waiting for it,
\* and none of the fields the other stages fill has been touched
StripeFrameUntouched(f) ==
    (f.fn = "decode" /\ Contains(f.flags, STRIPE)) =>
        /\ f.pc \in {"size", "select", "stripe_ret"}
        /\ f.p = <<>> /\ f.n_sym = 0 /\ f.l = {} /\ f.rle_meta = <<>>
        /\ f.core = <<>> /\ f.data = <<>> /\ f.runs = <<>>

\* the stripe call gets the declared length and the lane width, and what it
\* returns is what decode returns
StripeStep ==
    /\ (At("decode", "select") /\ Contains(Top(stack).flags, STRIPE)) =>
          /\ pos' = pos
          /\ Len(stack') = Len(stack) + 1
          /\ Top(stack)' =
                stripe_frame(Top(stack).len,
                             IF Contains(Top(stack).flags, N32) THEN 32
                             ELSE 4)
    /\ At("decode", "stripe_ret") =>
          /\ pos' = pos
          /\ Len(stack') = Len(stack) - 1
          /\ IF stack' = <<>>
             THEN result' = [st |-> "ok", site |-> "", out |-> Top(stack).ret]
             ELSE Top(stack)'.ret = Top(stack).ret

\* C13: with STRIPE set decode returns what the stripe decoder returns: the
\* outer block reads no pack or RLE meta and runs no core decode and no
\* expansion, so the outcome is the same whatever PACK, RLE, CAT and ORDER
\* are in the flag byte; the stripe call depends on N32 and the length only
C13_StripeOnly ==
    /\ [](\A k \in 1..Len(stack) : StripeFrameUntouched(stack[k]))
    /\ []((Done /\ Contains(TopFlags, STRIPE)) =>
            \A bits \in SUBSET TransformBits :
                decode(<<WithTransformBits(TopFlags, bits)>> \o Tail(input),
                       hint, build).result = result)
    /\ [][StripeStep]_vars

\* a stripe block whose flag byte also has PACK, RLE, CAT and ORDER returned
\* data
C13_Witness ==
    /\ Ok /\ Contains(TopFlags, STRIPE)
    /\ \A b \in TransformBits : Contains(TopFlags, b)
    /\ Len(result.out) > 1

-----------------------------------------------------------------------------
(* More properties of decode: the core stage *)

\* what the core stage of the running call has to produce from the bytes at
\* f.body on
CoreOf(f) ==
    IF Contains(f.flags, CAT) THEN read_exact(input, f.body, f.len)
    ELSE IF Contains(f.flags, ORDER)
    THEN order_1_decode(input, f.body, f.len, f.n, build)
    ELSE order_0_decode(input, f.body, f.len, f.n, build)

\* C14: the core stage copies exactly len bytes of the stream when CAT is
\* set, also when ORDER is set with it; else it is the order-1 decoder when
\* ORDER is set, else the order-0 decoder.  A block whose flag byte is CAT
\* alone returns the len bytes after the header and consumes the flag byte,
\* the size field and these len bytes, no more
C14_CoreSelection ==
    /\ At("decode", "rle") =>
          LET f == Top(stack)
          IN /\ CoreOf(f).st = "ok"
             /\ f.core = CoreOf(f).val
             /\ pos = CoreOf(f).pos
             /\ Contains(f.flags, CAT) =>
                   /\ f.core = SubSeq(input, f.body + 1, f.body + f.len)
                   /\ pos = f.body + f.len
    /\ (At("decode", "alphabet") \/ At("decode", "order_0")) =>
          /\ ~Contains(Top(stack).flags, CAT)
          /\ ~Contains(Top(stack).flags, ORDER)
    /\ (Done /\ TopFlags \in {CAT, CAT + ORDER}) =>
          LET size == read_uint7(input, 1)
          IN (size.st = "ok" /\ Len(input) >= size.pos + size.val) =>
                /\ result.st = "ok"
                /\ result.out = SubSeq(input, size.pos + 1,
                                       size.pos + size.val)
                /\ pos = 1 + (size.pos - 1) + size.val

\* a block with CAT and ORDER had its payload copied
C14_Witness ==
    /\ At("decode", "rle")
    /\ Contains(Top(stack).flags, CAT) /\ Contains(Top(stack).flags, ORDER)
    /\ Len(Top(stack).core) = MaxPayload

-----------------------------------------------------------------------------
(* More properties of decode: the stripe decoder's sub-decodes *)

RECURSIVE ReadClens(_, _)
\* the k uint7 values that start at p, and where they end
ReadClens(p, k) ==
    IF k = 0 THEN [vals |-> <<>>, pos |-> p]
    ELSE LET r == read_uint7(input, p)
             rest == ReadClens(r.pos, k - 1)
         IN [vals |-> <<r.val>> \o rest.vals, pos |-> rest.pos]

\* the lengths and the cursor of the stripe call at stack[k], whose caller
\* is the decode call at stack[k - 1]
StripeSubDecodes(k) ==
    LET f == stack[k]
        caller == stack[k - 1]
        start == SizeEnd(caller)
        n == IF Contains(caller.flags, N32) THEN 32 ELSE 4
        heads == ReadClens(start + 1, f.x)
    IN f.pc \in {"sub", "sub_ret", "interleave"} =>
         /\ f.n = n /\ f.x = input[start + 1]
         /\ f.clens = heads.vals
         /\ Len(f.ulens) = Len(f.t) /\ Len(f.ends) = Len(f.t)
         /\ Len(f.starts) = Len(f.t) + (IF f.pc = "sub_ret" THEN 1 ELSE 0)
         /\ \A j \in 1..Len(f.ulens) :
               f.ulens[j] = (f.len \div f.x)
                            + (IF f.len % n > j - 1 THEN 1 ELSE 0)
         /\ \A j \in 1..Len(f.starts) :
               f.starts[j] = IF j = 1 THEN heads.pos ELSE f.ends[j - 1]
         /\ (f.pc = "sub_ret" /\ k < Len(stack)) =>
               /\ stack[k + 1].entry \in {0, f.starts[Len(f.starts)]}
               /\ stack[k + 1].len \in
                     {(f.len \div f.x) + (IF f.len % n > Len(f.t) THEN 1 ELSE 0),
                      read_uint7(input, f.starts[Len(f.starts)] + 1).val}
         /\ (f.pc = "interleave" /\ f.x > 0) => Len(f.t) = f.x

\* C15: stripe j of x is decoded to floor(len / x) bytes, plus one exactly
\* when len mod n > j for the lane width n of the outer block (4, or 32
\* with N32); the x compressed lengths are all read before the first
\* sub-decode, and the sub-decodes run one after another in increasing j,
\* each starting where the one before it stopped
C15_StripeLengths ==
    \A k \in 2..Len(stack) :
        stack[k].fn = "stripe" => StripeSubDecodes(k)

\* two stripes of a block whose length leaves a remainder only by the lane
\* width have been decoded
C15_Witness ==
    /\ At("stripe", "interleave")
    /\ Top(stack).x = 2 /\ Top(stack).len = 3
    /\ Top(stack).ulens = <<2, 2>> /\ Len(Top(stack).t) = 2
    /\ Top(stack).starts[2] > Top(stack).starts[1]

-----------------------------------------------------------------------------
(* More properties of decode: the alphabet block *)

\* C16: an alphabet block that has not reached its terminator within 256
\* symbols is refused with a data error: the loop of read_alphabet never
\* goes on to mark a 257th symbol
C16_AlphabetBounded ==
    /\ At("decode", "alphabet") => Top(stack).al.count <= 256
    /\ (At("decode", "order_0") \/ At("decode", "alphabet")) =>
          Top(stack).al.count <= 257

RECURSIVE AlphabetFrom(_, _, _)
\* the alphabet block read as the format describes it, from the symbol byte
\* at p on: last is the symbol marked last, marked the symbols marked so
\* far.  A symbol byte 0 ends the block; a symbol byte last + 1 is followed
\* by a run byte r and marks the r symbols after it as well (as far as
\* there are symbols)
AlphabetFrom(p, last, marked) ==
    LET s == read_u8(input, p)
        r == read_u8(input, p + 1)
        top == Min(s.val + r.val, 255)
    IN IF s.st # "ok" THEN [st |-> "eof", marked |-> marked, pos |-> s.pos]
       ELSE IF s.val = 0 THEN [st |-> "done", marked |-> marked, pos |-> s.pos]
       ELSE IF s.val # last + 1
       THEN AlphabetFrom(s.pos, s.val, marked \cup {s.val})
       ELSE IF r.st # "ok"
       THEN [st |-> "eof", marked |-> marked \cup {s.val}, pos |-> r.pos]
       ELSE AlphabetFrom(r.pos, top, marked \cup (s.val..top))

\* the alphabet block that starts at p: its first byte is a symbol, marked
\* whatever it is
AlphabetAt(p) ==
    LET s == read_u8(input, p)
    IN IF s.st # "ok" THEN [st |-> "eof", marked |-> {}, pos |-> s.pos]
       ELSE AlphabetFrom(s.pos, s.val, {s.val})

\* C17: read_alphabet marks every symbol byte it reads, reads a run byte r
\* after a symbol byte that is the symbol before it plus one and then marks
\* the r symbols that follow without reading symbol bytes, and ends at a
\* symbol byte 0 read outside a run; the bitmap it returns holds exactly
\* the symbols marked, and it fails only for want of bytes
C17_AlphabetDecoding ==
    /\ At("decode", "order_0") =>
          /\ AlphabetAt(Top(stack).body).st = "done"
          /\ Top(stack).al.alphabet = AlphabetAt(Top(stack).body).marked
          /\ pos = AlphabetAt(Top(stack).body).pos
    /\ (Done /\ result.site = "alphabet") => result.st = "eof"

-----------------------------------------------------------------------------
(* One rANS lane: the advance step for the symbol located for the state's  *)
(* slot, then the renormalisation, over sample 32-bit states               *)

\* most 16-bit words behind the lane's reader
MaxWords == 2
\* most steps of one lane in a run
MaxSteps == 4

\* 16-bit halves at the edges of the ranges the steps distinguish
Halves == {0, 1, 1023, 4095, 4096, 16384, 32767, 32768, 65535}

\* the 16-bit words behind the reader
Words == {0, 32767, 65535}

\* the 32-bit states
States32 == [hi : Halves, lo : Halves]

\* the little-endian bytes of a sequence of 16-bit words
WordBytes(ws) == Concat([k \in 1..Len(ws) |-> <<ws[k] % 256, ws[k] \div 256>>])

LaneInputs ==
    UNION { { WordBytes(ws) : ws \in [1..k -> Words] } : k \in 0..MaxWords }

\* normalised tables: the [c, f] of every symbol, c + f <= 1 << bits, the
\* symbols together covering every slot
LaneTables ==
    { [bits |-> 12, syms |-> <<[c |-> 0, f |-> 4096]>>],
      [bits |-> 12, syms |-> <<[c |-> 0, f |-> 1], [c |-> 1, f |-> 4095]>>],
      [bits |-> 12, syms |-> <<[c |-> 0, f |-> 4095], [c |-> 4095, f |-> 1]>>],
      [bits |-> 10, syms |-> <<[c |-> 0, f |-> 512], [c |-> 512, f |-> 512]>>] }

\* the symbol whose range of slots holds the slot of r
Located(tab, r) ==
    CHOOSE e \in { tab.syms[k] : k \in 1..Len(tab.syms) } :
        /\ e.c <= rans_get_cumulative_freq_nx16(r, tab.bits)
        /\ rans_get_cumulative_freq_nx16(r, tab.bits) < e.c + e.f

LaneInit ==
    /\ lane_r \in States32
    /\ lane_prev = [op |-> "none", hi |-> 0, lo |-> 0, pos |-> 0, n |-> 0]
    /\ lane_cf \in LaneTables
    /\ lane_in \in LaneInputs
    /\ lane_pos = 0
    /\ lane_pc \in {"advance", "renorm"}
    /\ lane_build \in Builds

LaneOthers == <<decVars, lookupVars, mwVars, parserVars, csiVars>>

\* what a step leaves behind: its name, the state and the cursor before
\* it, and the number of steps so far
Stepped(op) ==
    /\ lane_prev.n < MaxSteps
    /\ lane_prev' = [op |-> op, hi |-> lane_r.hi, lo |-> lane_r.lo,
                     pos |-> lane_pos, n |-> lane_prev.n + 1]

\* states[j] = rans_advance_step_nx16(states[j], c, f, bits)
LaneAdvance ==
    /\ lane_pc = "advance"
    /\ LET e == Located(lane_cf, lane_r)
           a == rans_advance_step_nx16(lane_r, e.c, e.f, lane_cf.bits,
                                       lane_build)
       IN IF a.st = "panic"
          THEN /\ lane_pc' = "panicked" /\ Stepped("advance")
               /\ UNCHANGED lane_r
          ELSE /\ lane_pc' = "renorm" /\ Stepped("advance")
               /\ lane_r' = a.val
    /\ UNCHANGED <<lane_cf, lane_in, lane_pos, lane_build, LaneOthers>>

\* states[j] = rans_renorm_nx16(reader, states[j])?
LaneRenorm ==
    /\ lane_pc = "renorm"
    /\ LET n == rans_renorm_nx16(lane_in, lane_pos, lane_r)
       IN IF n.st # "ok"
          THEN /\ lane_pc' = "failed" /\ Stepped("renorm")
               /\ UNCHANGED <<lane_r, lane_pos>>
          ELSE /\ lane_pc' = "advance" /\ Stepped("renorm")
               /\ lane_r' = n.val
               /\ lane_pos' = n.pos
    /\ UNCHANGED <<lane_cf, lane_in, lane_build, LaneOthers>>

LaneNext == LaneAdvance \/ LaneRenorm

LaneStart ==
    LaneInit /\ DecIdle /\ LookupIdle /\ MwIdle /\ ParserIdle /\ CsiIdle

LaneSpec == LaneStart /\ [][LaneNext]_vars


\* a u32 [hi, lo] against the powers of two the claims name
AtLeast2p15(r) == r.hi > 0 \/ r.lo >= Pow2(15)
Below2p31(r) == r.hi < Pow2(15)
u32_le(a, b) == a.hi < b.hi \/ (a.hi = b.hi /\ a.lo <= b.lo)

\* the 16-bit word at the cursor the last step started from
WordAtPrev == lane_in[lane_prev.pos + 1] + 256 * lane_in[lane_prev.pos + 2]

\* the last step was a renormalisation that returned Ok
Renormed == lane_prev.op = "renorm" /\ lane_pc = "advance"

\* a state of at least 2^15 comes back as it is and nothing is read; a
\* smaller one comes back as (state << 16) + word, one word read
RenormShape ==
    IF AtLeast2p15(lane_prev)
    THEN /\ lane_r = [hi |-> lane_prev.hi, lo |-> lane_prev.lo]
         /\ lane_pos = lane_prev.pos
    ELSE /\ lane_pos = lane_prev.pos + 2
         /\ lane_pos <= Len(lane_in)
         /\ lane_r = [hi |-> lane_prev.lo, lo |-> WordAtPrev]

\* C18 as claimed: whatever the 32-bit state and the word that follows, the
\* state rans_renorm_nx16 returns is at least 2^15 and below 2^31 (a state
\* of at least 2^15 unchanged without a read, a smaller one as
\* (state << 16) + word after the read of one word)
C18_RenormRange ==
    Renormed => (AtLeast2p15(lane_r) /\ Below2p31(lane_r) /\ RenormShape)

\* C18, amended: the same for every state from 1 up to, not including, 2^31
C18_RenormRangeFrom ==
    Renormed =>
        /\ RenormShape
        /\ ((lane_prev.hi > 0 \/ lane_prev.lo > 0) /\ Below2p31(lane_prev))
              => (AtLeast2p15(lane_r) /\ Below2p31(lane_r))

\* a state below 2^15 was topped up with the word 0xFFFF
C18_Witness ==
    /\ Renormed
    /\ lane_prev.hi = 0 /\ lane_prev.lo > 0 /\ lane_prev.lo < Pow2(15)
    /\ lane_r = [hi |-> lane_prev.lo, lo |-> 65535]

\* f * (state >> bits) + slot - c worked out in 16-bit limbs of the
\* quotient, for the state and the symbol of the last step: [hi, lo], hi
\* outside 0..65535 when the value does not fit 32 bits
AdvanceValue ==
    LET e == Located(lane_cf, lane_prev)
        q == lane_prev.hi * Pow2(16 - lane_cf.bits)
             + (lane_prev.lo \div Pow2(lane_cf.bits))
        slot == lane_prev.lo % Pow2(lane_cf.bits)
        mid == e.f * (q % W16)
        low == (mid % W16) + slot - e.c + W16
    IN [hi |-> e.f * (q \div W16) + (mid \div W16) + (low \div W16) - 1,
        lo |-> low % W16,
        before_sub |-> e.f * (q \div W16) + (mid \div W16)
                       + (((mid % W16) + slot) \div W16)]

\* C19: for the symbol located for the state's slot (c <= slot < c + f,
\* c + f <= 2^bits) the advance step f * (state >> bits) + slot - c fits 32
\* bits at every point of the computation, whatever the 32-bit state, is
\* the value the step returns, and is not above the state
C19_AdvanceStep ==
    /\ lane_pc # "panicked"
    /\ lane_prev.op = "advance" =>
          /\ AdvanceValue.hi \in 0..(W16 - 1)
          /\ AdvanceValue.before_sub \in 0..(W16 - 1)
          /\ lane_r = [hi |-> AdvanceValue.hi, lo |-> AdvanceValue.lo]
          /\ u32_le(lane_r, lane_prev)

\* the step was taken from the state 0xFFFFFFFF for a symbol with c > 0,
\* with overflow checks on
C19_Witness ==
    /\ lane_prev.op = "advance" /\ lane_pc = "renorm"
    /\ lane_prev.hi = 65535 /\ lane_prev.lo = 65535
    /\ Located(lane_cf, lane_prev).c > 0
    /\ lane_build = "debug"

-----------------------------------------------------------------------------
(* More properties of decode: the RLE meta block *)

\* the RLE meta of the call f, read from the stream as the format lays it
\* out: [st, val, pos, len] with val the meta bytes, pos the cursor after
\* the block and len the length of the core data
RleMetaOf(f) ==
    LET meta_len == read_uint7(input, RleMetaStart(f))
        len == read_uint7(input, meta_len.pos)
        comp_len == read_uint7(input, len.pos)
        buf == read_exact(input, comp_len.pos, comp_len.val)
        dst == order_0_decode(buf.val, 0, meta_len.val \div 2, f.n, build)
    IN IF meta_len.st # "ok" \/ len.st # "ok"
       THEN [st |-> "eof", val |-> <<>>, pos |-> 0, len |-> 0]
       ELSE IF meta_len.val % 2 = 1
       THEN IF Len(input) < len.pos + (meta_len.val \div 2)
            THEN [st |-> "eof", val |-> <<>>, pos |-> 0, len |-> 0]
            ELSE [st |-> "ok",
                  val |-> SubSeq(input, len.pos + 1,
                                 len.pos + (meta_len.val \div 2)),
                  pos |-> len.pos + (meta_len.val \div 2), len |-> len.val]
       ELSE IF comp_len.st # "ok" \/ buf.st # "ok"
       THEN [st |-> "eof", val |-> <<>>, pos |-> 0, len |-> 0]
       ELSE [st |-> dst.st, val |-> dst.val,
             pos |-> comp_len.pos + comp_len.val, len |-> len.val]

\* the number of flagged symbols the first meta byte stands for
FlaggedCount(meta) == IF meta[1] = 0 THEN 256 ELSE meta[1]

\* the outermost call as far as its flag byte tells
OuterCall == [flags |-> TopFlags, entry |-> 0, n |-> lane_count(TopFlags)]

\* C20: the RLE meta is the next (meta length / 2) bytes when the declared
\* meta length is odd, else the order-0 decoding (lane width n) of the
\* bytes of the compressed length that follows, into (meta length / 2)
\* bytes; its first byte m is the number of flagged symbols, 0 standing for
\* 256; L holds exactly the m bytes after it and the control cursor is
\* right after them; a meta shorter than 1 + m bytes is UnexpectedEof
C20_RleMeta ==
    /\ (At("decode", "core") /\ Contains(Top(stack).flags, RLE)) =>
          LET f == Top(stack)
              meta == RleMetaOf(f)
          IN /\ meta.st = "ok" /\ Len(meta.val) >= 1 + FlaggedCount(meta.val)
             /\ f.rle_meta = meta.val
             /\ f.l = { meta.val[k] : k \in 2..(1 + FlaggedCount(meta.val)) }
             /\ f.rle_mpos = 1 + FlaggedCount(meta.val)
             /\ f.len = meta.len
             /\ pos = meta.pos
    /\ (Done /\ Contains(TopFlags, RLE) /\ ~Contains(TopFlags, STRIPE)
        /\ RleMetaOf(OuterCall).st = "ok") =>
          IF RleMetaOf(OuterCall).val = <<>>
             \/ Len(RleMetaOf(OuterCall).val)
                  < 1 + FlaggedCount(RleMetaOf(OuterCall).val)
          THEN result.st = "eof" /\ result.site = "rle_meta"
          ELSE result.site # "rle_meta"

\* a meta whose first byte is 0 flagged all 256 symbols
C20_Witness ==
    /\ At("decode", "core") /\ Contains(Top(stack).flags, RLE)
    /\ Top(stack).rle_meta[1] = 0
    /\ Top(stack).l = 0..255 /\ Top(stack).rle_mpos = 257

-----------------------------------------------------------------------------
(* More properties of decode: the pack meta block *)

\* the symbol count byte of the pack meta of the call f
PackCountOf(f) == read_u8(input, SizeEnd(f))

\* C21: a pack meta that decode_pack_meta returns has a symbol count n_sym
\* from 1 to 16 and a table of exactly the n_sym bytes that follow the
\* count, in stream order, and then the uint7 length; a count of 0 or above
\* 16 is refused with a data error
C21_PackMeta ==
    /\ (At("decode", "rle_meta") /\ Contains(Top(stack).flags, PACK)) =>
          LET f == Top(stack)
              at == SizeEnd(f)
          IN /\ f.n_sym \in 1..16
             /\ f.n_sym = PackCountOf(f).val
             /\ Len(f.p) = f.n_sym
             /\ f.p = SubSeq(input, at + 2, at + 1 + f.n_sym)
             /\ f.len = read_uint7(input, at + 1 + f.n_sym).val
             /\ pos = read_uint7(input, at + 1 + f.n_sym).pos
    /\ (Done /\ Contains(TopFlags, PACK) /\ ~Contains(TopFlags, STRIPE)
        /\ SizeEnd(OuterCall) > 0 /\ PackCountOf(OuterCall).st = "ok"
        /\ PackCountOf(OuterCall).val \notin 1..16) =>
          (result.st = "invalid" /\ result.site = "pack_meta")

-----------------------------------------------------------------------------
(* The compressed lengths of a stripe block *)

\* the bytes the sub-decodes 1..j of the stripe call f have taken
StripeConsumed(f, j) == f.ends[j] - f.starts[1]

\* the bytes the header of the stripe call f declares for the stripes 1..j
StripeDeclared(f, j) == SumSeq(SubSeq(f.clens, 1, j))

\* C22: the sub-decode of stripe j takes no more than clens[j] bytes, so
\* after stripe j the cursor is at most clens[0] + ... + clens[j] past the
\* stripe header, and while a sub-decode runs the cursor stays within the
\* bytes declared for it
C22_StripeWithinDeclared ==
    \A k \in 1..Len(stack) :
        stack[k].fn = "stripe" =>
            LET f == stack[k]
            IN /\ \A j \in 1..Len(f.ends) :
                     /\ f.ends[j] - f.starts[j] <= f.clens[j]
                     /\ StripeConsumed(f, j) <= StripeDeclared(f, j)
               /\ (f.pc = "sub_ret" /\ k < Len(stack)) =>
                     pos <= f.starts[Len(f.starts)] + f.clens[Len(f.starts)]

-----------------------------------------------------------------------------
(* The symbol counter of read_alphabet *)

\* the alphabet loop is about to take its run branch
RunPending == At("decode", "alphabet") /\ Top(stack).al.rle > 0

\* C24: read_alphabet never increments a symbol past 255: the run branch
\* `sym += 1` is taken only with sym < 255, and no alphabet block ends in
\* an arithmetic overflow panic
C24_NoSymbolOverflow ==
    /\ RunPending => Top(stack).al.sym < 255
    /\ Done => ~(result.st = "panic" /\ result.site = "alphabet")

-----------------------------------------------------------------------------
(* The chunks of a stripe block *)

\* the chunks the stripe call f has collected are as long as computed
ChunksAsComputed(f) == \A j \in 1..Len(f.t) : Len(f.t[j]) = f.ulens[j]

\* C25: every chunk t[j] that rans_decode_stripe collects has exactly
\* ulens[j] bytes, whatever the header of the sub-block says about its
\* size, so the read t[j][i] of the interleave loop is always in bounds
C25_ChunkLengths ==
    /\ \A k \in 1..Len(stack) :
          stack[k].fn = "stripe" => ChunksAsComputed(stack[k])
    /\ Done => ~(result.st = "panic" /\ result.site = "chunk_index")

-----------------------------------------------------------------------------
(* The order of the blocks of the MultithreadedWriter *)

\* the blocks the inner writer has, the EOF block left out
WrittenBlocks == SelectSeq(inner, LAMBDA b : b # BGZF_EOF)

\* block i has been compressed while an earlier block has not
CompressedAhead ==
    \E i, j \in 1..Len(chans) :
        i < j /\ chans[i] = "empty" /\ chans[j] = "ok"

\* C26: the inner writer gets the compressed blocks in the order in which
\* their data was submitted, whatever the number of deflater threads and
\* the order in which they finish: its blocks are at all times the
\* compressed forms of the first submitted blocks, each once, and when the
\* writer thread has ended without an error none is missing
C26_SubmissionOrder ==
    /\ Len(WrittenBlocks) <= Len(submitted)
    /\ \A i \in 1..Len(WrittenBlocks) :
          WrittenBlocks[i] = compress(submitted[i])
    /\ \A i \in 1..Len(inner) : inner[i] = BGZF_EOF => i = Len(inner)
    /\ (wthread.pc = "done" /\ wthread.res = "ok") => inner = WholeStream

\* the first block has been written and the third is compressed, while the
\* writer thread waits for the second, which is not
C26_Witness ==
    /\ Len(WrittenBlocks) = 1 /\ CompressedAhead
    /\ Len(chans) >= 3 /\ chans[3] = "ok" /\ wthread.pc = "wait"
    /\ wthread.blk = 2 /\ chans[2] = "empty"

-----------------------------------------------------------------------------
(* Progress of the MultithreadedWriter.  The caller decides when to call   *)
(* write, flush, finish and drop; every step inside a call and every step  *)
(* of a thread is taken when it stays possible.                            *)

\* a step inside a call of the owning thread
OwnerStep ==
    SendRx \/ SendMsg \/ TakeDeflateTx \/ JoinDeflater \/ TakeWriteTx
    \/ JoinWriter

\* a step of the writer thread
WriterStep == WriterRecv \/ WriterWrite \/ WriterEof

MwFairSpec ==
    /\ MwSpec
    /\ WF_vars(OwnerStep) /\ WF_vars(WriterStep)
    /\ \A k \in 1..MaxWorkers :
          WF_vars(k <= Len(dthreads) /\ (DeflaterRecv(k) \/ DeflaterSend(k)))

\* no compress and no write_all of the run fails
NeverFails == fails = {}

\* the owning thread is inside a call of write, flush, finish or drop
InCall == mpc \notin {"idle", "dropped", "panicked"}

\* every call that is under way ends: it returns or it panics
CallsEnd == InCall ~> ~InCall

\* C27: with an inner writer that never fails no call blocks forever and
\* every send completes: the owning thread never panics in a call, and
\* whenever it is inside a call some thread can take a step
C27_SendsComplete ==
    NeverFails => (Running /\ (InCall => ENABLED MwNext))

\* the part of C27 about blocking: inside a call some thread can always
\* take a step
NoCallStuck == InCall => ENABLED MwNext

-----------------------------------------------------------------------------
(* I/O errors of the MultithreadedWriter *)

\* the writer thread has stopped on an error of compress or write_all
WriterStoppedOnError == wthread.pc = "done" /\ wthread.res = "err"

\* the first call of finish that returned, returned the error
FirstFinishReportsError == rets # <<>> => rets[1] = "err"

\* C28: an I/O error of the inner writer or of the compression of a block
\* comes back to the caller as an Err: once the writer thread has stopped
\* on the error, the call of finish that joins it returns Err, and no call
\* of write, flush or finish panics or blocks forever
C28_ErrorsReported ==
    WriterStoppedOnError =>
        /\ FirstFinishReportsError
        /\ Running
        /\ InCall => ENABLED MwNext

-----------------------------------------------------------------------------
(* Errors of parse_partial *)

\* what the parser has accumulated for the header
Accumulated ==
    <<header, reference_sequences, read_groups, programs, comments>>

\* the map a given duplicate error is about
DuplicateMap(ret) ==
    CASE ret = "DuplicateReferenceSequenceName" -> reference_sequences
      [] ret = "DuplicateReadGroupId" -> read_groups
      [] ret = "DuplicateProgramId" -> programs
      [] OTHER -> <<>>

\* the same map after the call
DuplicateMapAfter(ret) ==
    CASE ret = "DuplicateReferenceSequenceName" -> reference_sequences'
      [] ret = "DuplicateReadGroupId" -> read_groups'
      [] ret = "DuplicateProgramId" -> programs'
      [] OTHER -> <<>>

\* a call of parse_partial that returns an error leaves what was
\* accumulated as it was, and the entry a Duplicate* error names is there
\* before and after the call
ErrorStep ==
    (calls' # calls /\ calls'[Len(calls')].ret # "ok") =>
        LET e == calls'[Len(calls')]
        IN /\ UNCHANGED Accumulated
           /\ index_of(DuplicateMap(e.ret), e.src.key) # 0
                 => index_of(DuplicateMapAfter(e.ret), e.src.key) # 0

\* C29: when parse_partial returns an error the accumulated header is the
\* same as before the call; after a Duplicate* error the entry that was
\* added earlier under the duplicated key is still present
C29_ErrorLeavesHeader == [][ErrorStep]_vars

-----------------------------------------------------------------------------
(* The CSI reference sequence Builder (noodles-csi,                        *)
(* index/reference_sequence/builder.rs).  A virtual position is a number,  *)
(* a chunk is [start, end], an Option is <<>> or <<value>>.                *)

\* most calls of add_record in one run
MaxAdds == 3

\* LINEAR_INDEX_WINDOW_SIZE: 1 << 14
LINEAR_INDEX_WINDOW_SIZE == 16384

\* bgzf::VirtualPosition::MAX and MIN.  MAX is u64::MAX in the code; it is
\* only compared with the chunk positions, which are all below this value
VirtualPosition_MAX == Pow2(30)
VirtualPosition_MIN == 0

\* test_build: MIN_SHIFT and DEPTH
MIN_SHIFT == 14
DEPTH == 5

Chunk(s, e) == [start |-> s, end |-> e]

\* the two records of test_build
TestRecords ==
    << [start |-> 8, end |-> 13, is_mapped |-> TRUE, chunk |-> Chunk(0, 9)],
       [start |-> 121393, end |-> 196418, is_mapped |-> FALSE,
        chunk |-> Chunk(9, 3473408)] >>

\* 1-based positions at the borders of the first three windows
Positions ==
    {1, LINEAR_INDEX_WINDOW_SIZE, LINEAR_INDEX_WINDOW_SIZE + 1,
     2 * LINEAR_INDEX_WINDOW_SIZE + 5}

\* the records handed to add_record
Records ==
    { TestRecords[1], TestRecords[2] }
    \cup { r \in [start : Positions, end : Positions, is_mapped : {TRUE},
                   chunk : {Chunk(5, 9), Chunk(9, 20)}] :
             r.start <= r.end }

RECURSIVE reg2bin_from(_, _, _, _, _)
\* the loop of reg2bin over the levels l, from the smallest bins up
reg2bin_from(start0, end0, l, s, t) ==
    IF l = 0 THEN 0
    ELSE IF start0 \div Pow2(s) = end0 \div Pow2(s)
    THEN t + (start0 \div Pow2(s))
    ELSE reg2bin_from(start0, end0, l - 1, s + 3, t - Pow2(3 * (l - 1)))

\* reg2bin(start, end, min_shift, depth): the smallest bin that holds the
\* interval
reg2bin(start, end, min_shift, depth) ==
    reg2bin_from(start - 1, end - 1, depth, min_shift,
                 (Pow2(3 * depth) - 1) \div 7)

\* parent_id(id): <<>> for the bin 0
parent_id(id) == IF id > 0 THEN <<(id - 1) \div 8>> ELSE <<>>

RECURSIVE Ancestors(_)
\* the bins the loop `while let Some(pid) = parent_id(id)` visits from id
Ancestors(id) ==
    IF parent_id(id) = <<>> THEN {}
    ELSE {parent_id(id)[1]} \cup Ancestors(parent_id(id)[1])

\* Bin::builder() and bin::Builder::add_chunk: the smallest chunk start,
\* and the chunks
bin_add_chunk(builder, chunk) ==
    [loffset |-> Min(builder.loffset, chunk.start),
     chunks |-> Append(builder.chunks, chunk)]

\* update_bins
update_bins(bins, min_shift, depth, start, end, chunk) ==
    LET bin_id == reg2bin(start, end, min_shift, depth)
        builder == IF bin_id \in DOMAIN bins THEN bins[bin_id]
                   ELSE [loffset |-> VirtualPosition_MAX, chunks |-> <<>>]
    IN [id \in DOMAIN bins \cup {bin_id} |->
          IF id = bin_id THEN bin_add_chunk(builder, chunk) ELSE bins[id]]

\* self.linear_index.resize(len, None) when it is longer than the index
resize(index, len) ==
    IF len > Len(index)
    THEN index \o [k \in 1..(len - Len(index)) |-> <<>>]
    ELSE index

\* every window of the record takes the chunk start
update_linear_index_overwrite(index, start, end, chunk) ==
    LET linear_index_start_offset == (start - 1) \div LINEAR_INDEX_WINDOW_SIZE
        linear_index_end_offset == (end - 1) \div LINEAR_INDEX_WINDOW_SIZE
        resized == resize(index, linear_index_end_offset + 1)
    IN [k \in 1..Len(resized) |->
          IF k - 1 \in linear_index_start_offset..linear_index_end_offset
          THEN <<chunk.start>> ELSE resized[k]]

\* update_linear_index: self.linear_index[i].get_or_insert(chunk.start())
\* for every window i of the record
update_linear_index(index, start, end, chunk) ==
    LET linear_index_start_offset == (start - 1) \div LINEAR_INDEX_WINDOW_SIZE
        linear_index_end_offset == (end - 1) \div LINEAR_INDEX_WINDOW_SIZE
        resized == resize(index, linear_index_end_offset + 1)
    IN [k \in 1..Len(resized) |->
          IF /\ k - 1 \in linear_index_start_offset..linear_index_end_offset
             /\ resized[k] = <<>>
          THEN <<chunk.start>> ELSE resized[k]]

\* Builder::default()
BuilderInit ==
    /\ bin_builders = <<>> /\ linear_index = <<>>
    /\ start_position = VirtualPosition_MAX
    /\ end_position = VirtualPosition_MIN
    /\ mapped_record_count = 0 /\ unmapped_record_count = 0
    /\ added = <<>> /\ built = <<>>

BuilderOthers == <<decVars, lookupVars, mwVars, parserVars, laneVars>>

\* add_record(min_shift, depth, start, end, is_mapped, chunk):
\* update_bins, update_linear_index, update_metadata
AddRecord ==
    /\ built = <<>> /\ Len(added) < MaxAdds
    /\ \E r \in Records :
          /\ bin_builders' = update_bins(bin_builders, MIN_SHIFT, DEPTH,
                                         r.start, r.end, r.chunk)
          /\ linear_index' = update_linear_index(linear_index, r.start,
                                                 r.end, r.chunk)
          /\ mapped_record_count' =
                mapped_record_count + (IF r.is_mapped THEN 1 ELSE 0)
          /\ unmapped_record_count' =
                unmapped_record_count + (IF r.is_mapped THEN 0 ELSE 1)
          /\ start_position' = Min(start_position, r.chunk.start)
          /\ end_position' = Max(end_position, r.chunk.end)
          /\ added' = Append(added, r)
    /\ UNCHANGED <<built, BuilderOthers>>

\* the loffset of bin id after the loop over the builders: the smallest of
\* its own and of those of the bins below it
build_loffset(bins, id) ==
    LET below == { bins[lower].loffset :
                     lower \in { other \in DOMAIN bins :
                                    id \in Ancestors(other) } }
    IN IF \E v \in below : v < bins[id].loffset
       THEN CHOOSE v \in below : \A w \in below : v <= w
       ELSE bins[id].loffset

\* p.unwrap_or_default()
unwrap_or_default(p) == IF p = <<>> THEN 0 ELSE p[1]

\* build(self)
build_reference_sequence(bins, index, sp, ep, mapped, unmapped) ==
    IF DOMAIN bins = {}
    THEN [bins |-> <<>>, linear_index |-> <<>>, metadata |-> <<>>]
    ELSE [bins |-> [id \in DOMAIN bins |->
                      [loffset |-> build_loffset(bins, id),
                       chunks |-> bins[id].chunks]],
          linear_index |-> [k \in 1..Len(index) |->
                              unwrap_or_default(index[k])],
          metadata |-> << [start_position |-> sp, end_position |-> ep,
                           mapped_record_count |-> mapped,
                           unmapped_record_count |-> unmapped] >>]

\* build consumes the builder
Build ==
    /\ built = <<>>
    /\ built' = << build_reference_sequence(bin_builders, linear_index,
                       start_position, end_position, mapped_record_count,
                       unmapped_record_count) >>
    /\ UNCHANGED <<bin_builders, linear_index, start_position, end_position,
                   mapped_record_count, unmapped_record_count, added,
                   BuilderOthers>>

BuilderNext == AddRecord \/ Build

BuilderStart ==
    BuilderInit /\ DecIdle /\ LookupIdle /\ MwIdle /\ ParserIdle /\ LaneIdle

BuilderSpec == BuilderStart /\ [][BuilderNext]_vars


-----------------------------------------------------------------------------
(* Properties of the reference sequence Builder *)

\* the window of a 1-based position
WindowOf(position) == (position - 1) \div LINEAR_INDEX_WINDOW_SIZE

\* the interval of the record r overlaps window i
Overlaps(r, i) == WindowOf(r.start) <= i /\ i <= WindowOf(r.end)

\* the number of windows the records added so far ask for
WindowCount ==
    IF added = <<>> THEN 0
    ELSE 1 + WindowOf(CHOOSE e \in { added[k].end : k \in 1..Len(added) } :
                         \A k \in 1..Len(added) : added[k].end <= e)

\* the entry of window i by the claim: the chunk start of the first record
\* added that overlaps it, None when there is none
FirstOverlapping(i) ==
    LET hits == { k \in 1..Len(added) : Overlaps(added[k], i) }
    IN IF hits = {} THEN <<>>
       ELSE <<added[CHOOSE k \in hits : \A h \in hits : k <= h].chunk.start>>

\* C23: after any calls of add_record the linear index covers the windows
\* 0 ... max((end - 1) / WINDOW), and the entry of a window is the chunk
\* start of the first record added whose interval overlaps it, so a later
\* record never changes it; build emits 0 for a window no record overlaps,
\* and with no record at all it returns no bins, an empty linear index and
\* no metadata
C23_LinearIndex ==
    /\ Len(linear_index) = WindowCount
    /\ \A i \in 0..(WindowCount - 1) :
          linear_index[i + 1] = FirstOverlapping(i)
    /\ built # <<>> =>
          /\ Len(built[1].linear_index) = WindowCount
          /\ \A i \in 0..(WindowCount - 1) :
                built[1].linear_index[i + 1] =
                    IF FirstOverlapping(i) = <<>> THEN 0
                    ELSE FirstOverlapping(i)[1]
          /\ added = <<>> =>
                /\ DOMAIN built[1].bins = {}
                /\ built[1].linear_index = <<>>
                /\ built[1].metadata = <<>>
          /\ added # <<>> => built[1].metadata # <<>>

\* build has returned an index of three windows: two records with
\* different chunk starts overlap the last, a third one overlaps the first,
\* and none overlaps the second
C23_Witness ==
    /\ built # <<>> /\ Len(added) = 3 /\ WindowCount = 3
    /\ Overlaps(added[1], 2) /\ Overlaps(added[2], 2)
    /\ added[1].chunk.start = 9 /\ added[2].chunk.start = 5
    /\ Overlaps(added[3], 0) /\ added[3].chunk.start = 5
    /\ FirstOverlapping(1) = <<>>
    /\ built[1].linear_index = <<5, 0, 9>>

====
